---- MODULE Spec2Model ----
(***************************************************************************)
(* LibrePitch: the live effect chain (audio/graph), the offline renderer   *)
(* and the encoders (audio/export).                                        *)
(*                                                                         *)
(* Numbers.  Gains are held in units of 1/GainDen, percent amounts and dB  *)
(* as integers, speeds in hundredths.  The renderer's double arithmetic is *)
(* modelled as binary floating point with MantBits significant bits and    *)
(* round-to-nearest-even, values held in units of 2^-FracBits.             *)
(***************************************************************************)
EXTENDS Integers, Sequences, FiniteSets, TLC

VARIABLES
    state,      \* graph.ts: the AudioGraphState record of the live chain
    params,     \* graph.ts: the AudioParam values of the live chain's nodes
    conn,       \* graph.ts: the connections of the live chain, <<from, to>>
    offline,    \* export.ts: the graph of the chunk being rendered, or NoGraph
    setterCalls,\* setter calls made on the live chain while that chunk renders
    job,        \* export.ts: the arguments of a renderOffline call
    rpc,        \* renderOffline: where the call stands
    rl,         \* renderOffline: effectiveRate, duration, chunkStarts
    ri,         \* renderOffline: the loop index i
    chunk,      \* renderOffline: the chunk being rendered
    renderedChunks, \* renderOffline: renderedChunks
    progress,   \* the percents reported to onProgress('Rendering...', percent)
    rendered,   \* the AudioBuffer renderOffline returns
    thrown,     \* the error renderOffline rejects with, and what the runtime raised
    encBuffer,  \* export.ts: the AudioBuffer handed to encodeWAV / encodeMp3
    wpc,        \* encodeWAV: where the call stands
    wav,        \* encodeWAV: the ArrayBuffer, its header bytes and the samples written
    wi,         \* encodeWAV: the block start i
    wavProgress,\* the percents reported to onProgress('Encoding WAV...', percent)
    mp3pcm,     \* encodeMp3: left and right after floatToInt16
    mpc,        \* encodeMp3: where the call stands
    mp3,        \* encodeMp3: window.lamejs, the loop variables, the chunks, the result
    tagArgs,    \* writeMp3Tags: mp3Buffer, metadata, albumArt
    tpc,        \* writeMp3Tags: where the call stands
    tagOut,     \* writeMp3Tags: the bytes returned and the tags handed to MP3Tag.writeBuffer
    bpmBuffer,  \* bpm.ts: the AudioBuffer handed to detectBPM
    bpc,        \* detectBPM: where the call stands
    bl,         \* detectBPMInner: energy, onset, peakFrames, intervals, hist
    bpmOut,     \* detectBPM: what it returned
    source,     \* graph.ts: the AudioBufferSourceNode of the live chain, or NoSource
    playing,    \* graph.ts: playing
    startTime,  \* graph.ts: startTime, in seconds
    pauseOffset,\* graph.ts: pauseOffset, in seconds
    endedCallback, \* graph.ts: whether onEnded has registered a callback
    currentTime,\* ctx.currentTime, in seconds
    pendingPlays,  \* the play() calls awaiting ensureContextResumed(), oldest first
    playCalls,  \* the play() calls made
    endedCalls, \* the calls of the registered callback
    disposeCalls,  \* the dispose() calls made
    halted,        \* stop(), pause() or dispose() has returned since play() was last called
    graphKind,  \* main.ts: which factory made the current graph
    audio,      \* graph.ts: the HTMLAudioElement of a media-element graph, or NoAudio
    exports,    \* controls.ts: the renderOffline invocations of the export handlers
    controls,   \* controls.ts: what initControls was called with: _originalFilename, graph.__buffer
    downloadDropdownBtn, \* controls.ts: disabled and textContent of the download button
    downloadMenuHidden,  \* controls.ts: whether downloadMenu carries the class 'hidden'
    status,     \* controls.ts: the message last handed to showStatus, or none
    handler,    \* controls.ts: the export click handler in flight, or NoHandler
    downloads,  \* the downloads triggered: blob and file name, oldest first
    exportClicks, \* the clicks on a download item so far
    loads,      \* main.ts: the loadFile calls, each with its position
    graphs,     \* main.ts: the graphs created so far, oldest first
    currentGraph \* main.ts: currentGraph, an index into graphs, or 0 for null

chainVars == <<state, params, conn, offline, setterCalls>>
renderVars == <<job, rpc, rl, ri, chunk, renderedChunks, progress, rendered, thrown>>
encodeVars == <<encBuffer, wpc, wav, wi, wavProgress, mp3pcm, mpc, mp3>>
tagVars == <<tagArgs, tpc, tagOut>>
bpmVars == <<bpmBuffer, bpc, bl, bpmOut>>
loadVars == <<loads, graphs, currentGraph>>
playVars == <<source, playing, startTime, pauseOffset, endedCallback, currentTime,
              pendingPlays, playCalls, endedCalls, disposeCalls, halted, graphKind, audio>>

\* what the steps of one component leave alone
uiVars == <<controls, downloadDropdownBtn, downloadMenuHidden, status, handler,
            downloads, exportClicks>>

notChain  == <<exports, uiVars, renderVars, encodeVars, tagVars, bpmVars, loadVars>>
notRender == <<chainVars, playVars, exports, uiVars, encodeVars, tagVars, bpmVars, loadVars>>
notEncode == <<chainVars, playVars, exports, uiVars, renderVars, tagVars, bpmVars, loadVars>>
notTag    == <<chainVars, playVars, exports, uiVars, renderVars, encodeVars, bpmVars, loadVars>>
notBpm    == <<chainVars, playVars, exports, uiVars, renderVars, encodeVars, tagVars, loadVars>>
notExports == <<chainVars, playVars, uiVars, renderVars, encodeVars, tagVars, bpmVars, loadVars>>
notUi     == <<chainVars, playVars, exports, renderVars, encodeVars, tagVars, bpmVars, loadVars>>

-----------------------------------------------------------------------------
(* Helpers *)

Max(a, b) == IF a >= b THEN a ELSE b
Min(a, b) == IF a <= b THEN a ELSE b

clamp100MutantNoClamp(amount) == amount

\* Math.max(0, Math.min(100, amount))
clamp100(amount) == Max(0, Min(100, amount))

\* Times are exact fractions [n, d] of a second, d > 0, in lowest terms
Abs(a) == IF a < 0 THEN -a ELSE a

RECURSIVE GCD(_, _)
GCD(a, b) == IF b = 0 THEN a ELSE GCD(b, a % b)

Rat(n, d) ==
    LET sgn == IF d < 0 THEN -1 ELSE 1
        g == GCD(Abs(n), Abs(d))
    IN  [n |-> (sgn * n) \div g, d |-> (sgn * d) \div g]

RatAdd(a, b) == Rat(a.n * b.d + b.n * a.d, a.d * b.d)
RatSub(a, b) == Rat(a.n * b.d - b.n * a.d, a.d * b.d)
RatMul(a, b) == Rat(a.n * b.n, a.d * b.d)
RatDiv(a, b) == Rat(a.n * b.d, a.d * b.n)
RatLe(a, b) == a.n * b.d <= b.n * a.d
RatLt(a, b) == a.n * b.d < b.n * a.d
RatMin(a, b) == IF RatLe(a, b) THEN a ELSE b
RatMax(a, b) == IF RatLe(a, b) THEN b ELSE a
Zero == Rat(0, 1)

-----------------------------------------------------------------------------
(* Arguments the setters are called with *)

GainDen == 10000

SpeedArgs   == {-50, 50, 125}     \* hundredths: -0.5x, 0.5x, 1.25x
DetuneArgs  == {-1200, 0}         \* cents
ShelfArgs   == {0, 6}             \* dB
AmountArgs  == {-20, 50, 130}     \* 0..100 knobs, and values outside the range
ReverbArgs  == {-20, 30, 130}
VolumeArgs  == {-50, 50, 100}     \* hundredths
ReverbTypes == {"delay", "original"}

MaxSetterCalls == 1

-----------------------------------------------------------------------------
(* Filter cutoffs: 20000 * 2^(-6.64 * lp) and 20 * 2^(7.64 * hp) for whole  *)
(* amounts, computed by square-and-multiply from the per-percent ratio in   *)
(* fixed point.                                                             *)

LpStepQ15 == 31294   \* 2^(-0.0664) * 2^15
HpStepQ11 == 2159    \* 2^(0.0764) * 2^11

RECURSIVE Pow2LpQ15(_)
Pow2LpQ15(amount) ==
    IF amount <= 0 THEN 32768
    ELSE IF amount % 2 = 0
         THEN LET h == Pow2LpQ15(amount \div 2) IN (h * h) \div 32768
         ELSE (Pow2LpQ15(amount - 1) * LpStepQ15) \div 32768

RECURSIVE Pow2HpQ11(_)
Pow2HpQ11(amount) ==
    IF amount <= 0 THEN 2048
    ELSE IF amount % 2 = 0
         THEN LET h == Pow2HpQ11(amount \div 2) IN (h * h) \div 2048
         ELSE (Pow2HpQ11(amount - 1) * HpStepQ11) \div 2048

\* lp <= 0 ? 20000 : 20000 * Math.pow(2, -6.64 * lp), in Hz
lowpassCutoff(amount) ==
    IF amount <= 0 THEN 20000 ELSE (20000 * Pow2LpQ15(amount)) \div 32768

\* hp <= 0 ? 20 : 20 * Math.pow(2, 7.64 * hp), in Hz
highpassCutoff(amount) ==
    IF amount <= 0 THEN 20 ELSE (20 * Pow2HpQ11(amount)) \div 2048

-----------------------------------------------------------------------------
(* Reverb units: the nodes and the connections each constructor makes *)

DelayLines == {"delay.d29", "delay.d73", "delay.d147", "delay.d201"}

createDelayReverb ==
    [ send  |-> "delay.send",
      bus   |-> "delay.bus",
      nodes |-> {"delay.send", "delay.bus", "delay.dampen", "delay.feedback"}
                    \cup DelayLines,
      edges |-> {<<"delay.send", d>> : d \in DelayLines}
                    \cup {<<d, "delay.bus">> : d \in DelayLines}
                    \cup { <<"delay.bus", "delay.dampen">>,
                           <<"delay.dampen", "delay.feedback">>,
                           <<"delay.feedback", "delay.send">> } ]

createOriginalReverb ==
    [ send  |-> "orig.send",
      bus   |-> "orig.bus",
      nodes |-> {"orig.send", "orig.convolver", "orig.bus"},
      edges |-> { <<"orig.send", "orig.convolver">>,
                  <<"orig.convolver", "orig.bus">> } ]

reverbOf(type) == IF type = "delay" THEN createDelayReverb ELSE createOriginalReverb

\* AudioNode.disconnect(): drops every outgoing connection of the node
disconnect(edges, node) == {e \in edges : e[1] # node}

-----------------------------------------------------------------------------
(* The live chain, createAudioGraph *)

\* connectActiveReverbToWet
connectActiveReverbToWetMutantKeepOld(edges, type) ==
    edges \cup {<<reverbOf(type).bus, "wetGain">>}

connectActiveReverbToWet(edges, type) ==
    disconnect(disconnect(edges, createDelayReverb.bus), createOriginalReverb.bus)
        \cup {<<reverbOf(type).bus, "wetGain">>}

\* setReverbGains: the dry and wet gain for an amount under the stored type
setReverbGainsMutantBlendDelay(type, amount) ==
    [dry |-> GainDen - amount * 50, wet |-> amount * 50]

setReverbGainsMutantUnityDry(type, amount) ==
    IF type = "delay"
    THEN [dry |-> GainDen, wet |-> amount * 45]
    ELSE [dry |-> GainDen, wet |-> amount * 50]

setReverbGains(type, amount) ==
    IF type = "delay"
    THEN [dry |-> GainDen, wet |-> amount * 45]
    ELSE [dry |-> GainDen - amount * 50, wet |-> amount * 50]

\* setFilterFreqs
setFilterFreqsMutantHighpassOnly(p, s) ==
    [p EXCEPT !.highpassFreq = highpassCutoff(s.highpass)]

setFilterFreqs(p, s) ==
    [p EXCEPT !.lowpassFreq  = lowpassCutoff(s.lowpass),
              !.highpassFreq = highpassCutoff(s.highpass)]

InitState ==
    [ speed |-> 100, detune |-> 0, bass |-> 0, treble |-> 0, lowpass |-> 0,
      highpass |-> 0, reverb |-> 0, reverbType |-> "delay", volume |-> 100 ]

ChainEdges ==
    { <<"bass", "treble">>, <<"treble", "lowpass">>, <<"lowpass", "highpass">>,
      <<"highpass", "dryGain">>, <<"highpass", createDelayReverb.send>>,
      <<"highpass", createOriginalReverb.send>>, <<"dryGain", "gain">>,
      <<"wetGain", "gain">>, <<"gain", "analyser">>, <<"analyser", "destination">> }

createAudioGraphConn ==
    connectActiveReverbToWet(
        ChainEdges \cup createDelayReverb.edges \cup createOriginalReverb.edges,
        InitState.reverbType)

createAudioGraphParams ==
    setFilterFreqs(
        [ bassGain |-> 0, trebleGain |-> 0, lowpassFreq |-> 0, highpassFreq |-> 0,
          dryGain |-> GainDen, wetGain |-> 0, gain |-> 100 ],
        InitState)

NoGraph == [built |-> FALSE]

\* Playback.  ctx.currentTime advances in whole seconds up to MaxTime
MaxTime == 2
MaxPlayCalls == 1
MaxDisposeCalls == 2

\* buffer.duration: a buffer of two seconds
getDuration == Rat(2, 1)
rateOf(value) == Rat(value, 100)

NoSource == [node |-> FALSE]
NoOffset == [given |-> FALSE]
Offset(t) == [given |-> TRUE, offset |-> t]

PlayOffsets == {NoOffset, Offset(Rat(1, 1))}
SeekTimes == {Rat(-1, 1), Rat(1, 1), Rat(3, 1)}
PlaybackSpeedArgs == {50, 125}       \* hundredths

\* getCurrentTime, under the state record s
getCurrentTimeOf(s) ==
    IF ~playing THEN pauseOffset
    ELSE RatMin(RatMul(RatSub(Rat(currentTime, 1), startTime), rateOf(s.speed)),
                getDuration)

getCurrentTime == getCurrentTimeOf(state)

\* createSource(offset): the old node is silenced and disconnected, a new one
\* is connected to the bass filter and started; start(0, offset) raises a
\* RangeError for a negative offset, before startTime is assigned
createSource(offset) ==
    LET threw == RatLt(offset, Zero)
    IN  [ source |-> [ node |-> TRUE, onended |-> TRUE,
                       playbackRate |-> state.speed, detune |-> state.detune,
                       started |-> ~threw, position |-> offset,
                       finished |-> FALSE ],
          conn |-> disconnect(conn, "source") \cup {<<"source", "bass">>},
          startTime |-> IF threw THEN startTime
                        ELSE RatSub(Rat(currentTime, 1),
                                    RatDiv(offset, rateOf(state.speed))),
          threw |-> threw ]

NoAudio == [element |-> FALSE]

\* createAudioGraphFromMediaElement: the chain, fed by the element's source node
createAudioGraphFromMediaElementConn ==
    createAudioGraphConn \cup {<<"source", "bass">>}

PlayIdle ==
    /\ graphKind = "buffer"
    /\ audio = NoAudio
    /\ source = NoSource
    /\ playing = FALSE
    /\ startTime = Zero
    /\ pauseOffset = Zero
    /\ endedCallback = FALSE
    /\ currentTime = 0
    /\ pendingPlays = <<>>
    /\ playCalls = 0
    /\ endedCalls = 0
    /\ disposeCalls = 0
    /\ halted = FALSE

InitChain ==
    /\ state = InitState
    /\ params = createAudioGraphParams
    /\ conn = createAudioGraphConn
    /\ offline = NoGraph
    /\ setterCalls = 0

setSpeed(value) ==
    /\ state' = [state EXCEPT !.speed = value]
    /\ IF source.node
       THEN /\ source' = [source EXCEPT !.playbackRate = value]
            /\ LET currentPos == getCurrentTimeOf(state')
               IN  startTime' = RatSub(Rat(currentTime, 1),
                                       RatDiv(currentPos, rateOf(value)))
       ELSE UNCHANGED <<source, startTime>>
    /\ UNCHANGED <<params, conn, offline>>
    /\ UNCHANGED <<playing, pauseOffset, endedCallback, currentTime, pendingPlays,
                   playCalls, endedCalls, disposeCalls, halted, graphKind, audio>>

setDetune(cents) ==
    /\ state' = [state EXCEPT !.detune = cents]
    /\ source' = IF source.node THEN [source EXCEPT !.detune = cents] ELSE source
    /\ UNCHANGED <<params, conn, offline>>
    /\ UNCHANGED <<playing, startTime, pauseOffset, endedCallback, currentTime,
                   pendingPlays, playCalls, endedCalls, disposeCalls, halted, graphKind, audio>>

setBass(db) ==
    /\ state' = [state EXCEPT !.bass = db]
    /\ params' = [params EXCEPT !.bassGain = db]
    /\ UNCHANGED <<conn, offline>>
    /\ UNCHANGED playVars

setTreble(db) ==
    /\ state' = [state EXCEPT !.treble = db]
    /\ params' = [params EXCEPT !.trebleGain = db]
    /\ UNCHANGED <<conn, offline>>
    /\ UNCHANGED playVars

setLowpass(amount) ==
    /\ state' = [state EXCEPT !.lowpass = clamp100(amount)]
    /\ params' = setFilterFreqs(params, state')
    /\ UNCHANGED <<conn, offline>>
    /\ UNCHANGED playVars

setHighpass(amount) ==
    /\ state' = [state EXCEPT !.highpass = clamp100(amount)]
    /\ params' = setFilterFreqs(params, state')
    /\ UNCHANGED <<conn, offline>>
    /\ UNCHANGED playVars

setReverb(amount) ==
    /\ state' = [state EXCEPT !.reverb = clamp100(amount)]
    /\ LET g == setReverbGains(state'.reverbType, state'.reverb)
       IN  params' = [params EXCEPT !.dryGain = g.dry, !.wetGain = g.wet]
    /\ UNCHANGED <<conn, offline>>
    /\ UNCHANGED playVars

setReverbType(type) ==
    /\ state' = [state EXCEPT !.reverbType = type]
    /\ conn' = connectActiveReverbToWet(conn, type)
    /\ LET g == setReverbGains(type, state'.reverb)
       IN  params' = [params EXCEPT !.dryGain = g.dry, !.wetGain = g.wet]
    /\ UNCHANGED offline
    /\ UNCHANGED playVars

setVolume(value) ==
    /\ state' = [state EXCEPT !.volume = value]
    /\ params' = [params EXCEPT !.gain = value]
    /\ UNCHANGED <<conn, offline>>
    /\ UNCHANGED playVars

\* getState: a copy of the state record
getState == state

-----------------------------------------------------------------------------
(* Playback of the live chain: play, pause, stop, seek, onEnded, dispose *)

\* what stop() and dispose() act on
graphNow ==
    [conn |-> conn, source |-> source, playing |-> playing, pauseOffset |-> pauseOffset]

stopMutantLeavesPlaying(g) ==
    [g EXCEPT !.conn = IF g.source.node THEN disconnect(g.conn, "source") ELSE g.conn,
              !.source = NoSource]

\* stop(): source.stop() may raise on a node that never started; it is caught
stop(g) ==
    [g EXCEPT !.conn = IF g.source.node THEN disconnect(g.conn, "source") ELSE g.conn,
              !.source = NoSource,
              !.playing = FALSE,
              !.pauseOffset = Zero]

DisposedNodes ==
    {"bass", "treble", "lowpass", "highpass", "dryGain", "wetGain", "gain", "analyser"}

\* dispose(): stop(), then disconnect() on the eight stages
dispose(g) ==
    LET s == stop(g)
    IN  [s EXCEPT !.conn = {e \in s.conn : e[1] \notin DisposedNodes}]

notPlay == <<state, params, offline, setterCalls, graphKind>>

\* play(offset): the call suspends at await ensureContextResumed()
PlayCall ==
    /\ UNCHANGED audio
    /\ playCalls < MaxPlayCalls
    /\ \E o \in PlayOffsets : pendingPlays' = Append(pendingPlays, o)
    /\ playCalls' = playCalls + 1
    /\ halted' = FALSE
    /\ UNCHANGED <<source, playing, startTime, pauseOffset, endedCallback, currentTime,
                   endedCalls, disposeCalls, conn>>
    /\ UNCHANGED notPlay
    /\ UNCHANGED notChain

\* play(offset) resumes: createSource(offset ?? pauseOffset); playing = true
PlayResumes ==
    /\ graphKind = "buffer"
    /\ UNCHANGED audio
    /\ pendingPlays # <<>>
    /\ LET o == Head(pendingPlays)
           c == createSource(IF o.given THEN o.offset ELSE pauseOffset)
       IN  /\ source' = c.source
           /\ conn' = c.conn
           /\ startTime' = c.startTime
           /\ playing' = IF c.threw THEN playing ELSE TRUE
    /\ pendingPlays' = Tail(pendingPlays)
    /\ UNCHANGED <<pauseOffset, endedCallback, currentTime, playCalls, endedCalls,
                   disposeCalls, halted>>
    /\ UNCHANGED notPlay
    /\ UNCHANGED notChain

Pause ==
    /\ graphKind = "buffer"
    /\ UNCHANGED audio
    /\ IF playing /\ source.node
       THEN /\ pauseOffset' = getCurrentTime
            /\ conn' = disconnect(conn, "source")
            /\ source' = NoSource
            /\ playing' = FALSE
       ELSE UNCHANGED <<pauseOffset, conn, source, playing>>
    /\ halted' = TRUE
    /\ UNCHANGED <<startTime, endedCallback, currentTime, pendingPlays, playCalls,
                   endedCalls, disposeCalls>>
    /\ UNCHANGED notPlay
    /\ UNCHANGED notChain

Stop ==
    /\ graphKind = "buffer"
    /\ UNCHANGED audio
    /\ LET g == stop(graphNow)
       IN  /\ conn' = g.conn
           /\ source' = g.source
           /\ playing' = g.playing
           /\ pauseOffset' = g.pauseOffset
    /\ halted' = TRUE
    /\ UNCHANGED <<startTime, endedCallback, currentTime, pendingPlays, playCalls,
                   endedCalls, disposeCalls>>
    /\ UNCHANGED notPlay
    /\ UNCHANGED notChain

\* seek(time)
Seek ==
    /\ graphKind = "buffer"
    /\ UNCHANGED audio
    /\ \E time \in SeekTimes :
          /\ pauseOffset' = RatMax(Zero, RatMin(time, getDuration))
          /\ IF playing
             THEN LET c == createSource(pauseOffset')
                  IN  /\ source' = c.source
                      /\ conn' = c.conn
                      /\ startTime' = c.startTime
             ELSE UNCHANGED <<source, conn, startTime>>
    /\ UNCHANGED <<playing, endedCallback, currentTime, pendingPlays, playCalls,
                   endedCalls, disposeCalls, halted>>
    /\ UNCHANGED notPlay
    /\ UNCHANGED notChain

\* onEnded(cb)
OnEnded ==
    /\ UNCHANGED audio
    /\ endedCallback' = TRUE
    /\ UNCHANGED <<source, playing, startTime, pauseOffset, currentTime, pendingPlays,
                   playCalls, endedCalls, disposeCalls, halted, conn>>
    /\ UNCHANGED notPlay
    /\ UNCHANGED notChain

\* a second of ctx.currentTime; a started node reads playbackRate seconds of
\* the buffer
Tick ==
    /\ graphKind = "buffer"
    /\ UNCHANGED audio
    /\ currentTime < MaxTime
    /\ currentTime' = currentTime + 1
    /\ source' = IF source.node /\ source.started /\ ~source.finished
                 THEN [source EXCEPT !.position =
                          RatAdd(source.position, rateOf(source.playbackRate))]
                 ELSE source
    /\ UNCHANGED <<playing, startTime, pauseOffset, endedCallback, pendingPlays,
                   playCalls, endedCalls, disposeCalls, halted, conn>>
    /\ UNCHANGED notPlay
    /\ UNCHANGED notChain

onendedMutantKeepsOffset(g) ==
    IF g.playing
    THEN [playing |-> FALSE, pauseOffset |-> g.pauseOffset, called |-> TRUE]
    ELSE [playing |-> g.playing, pauseOffset |-> g.pauseOffset, called |-> FALSE]

\* lines 269-275: the handler createSource installs on the node
onended(g) ==
    IF g.playing
    THEN [playing |-> FALSE, pauseOffset |-> Zero, called |-> TRUE]
    ELSE [playing |-> g.playing, pauseOffset |-> g.pauseOffset, called |-> FALSE]

\* the node has run off the buffer: its 'ended' event, and the handler
\* createSource installed if it is still installed
SourceEnded ==
    /\ graphKind = "buffer"
    /\ UNCHANGED audio
    /\ source.node /\ source.started /\ ~source.finished
    /\ RatLe(getDuration, source.position) \/ RatLt(source.position, Zero)
    /\ source' = [source EXCEPT !.finished = TRUE]
    /\ IF source.onended
       THEN LET h == onended(graphNow)
            IN  /\ playing' = h.playing
                /\ pauseOffset' = h.pauseOffset
                /\ endedCalls' = IF h.called /\ endedCallback THEN endedCalls + 1
                                 ELSE endedCalls
       ELSE UNCHANGED <<playing, pauseOffset, endedCalls>>
    /\ UNCHANGED <<startTime, endedCallback, currentTime, pendingPlays, playCalls,
                   disposeCalls, halted, conn>>
    /\ UNCHANGED notPlay
    /\ UNCHANGED notChain

Dispose ==
    /\ graphKind = "buffer"
    /\ UNCHANGED audio
    /\ disposeCalls < MaxDisposeCalls
    /\ LET g == dispose(graphNow)
       IN  /\ conn' = g.conn
           /\ source' = g.source
           /\ playing' = g.playing
           /\ pauseOffset' = g.pauseOffset
    /\ disposeCalls' = disposeCalls + 1
    /\ halted' = TRUE
    /\ UNCHANGED <<startTime, endedCallback, currentTime, pendingPlays, playCalls,
                   endedCalls>>
    /\ UNCHANGED notPlay
    /\ UNCHANGED notChain

\* The media-element graph: play, pause, stop, seek, the element's clock, dispose

InitAudio ==
    [element |-> TRUE, paused |-> TRUE, src |-> "blob", currentTime |-> Zero,
     urlRevoked |-> FALSE]

mediaNow == [conn |-> conn, audio |-> audio]

\* dispose(): audio.pause(); audio.src = ''; URL.revokeObjectURL(_blobUrl);
\* then disconnect() on the source node and the eight stages
mediaDispose(m) ==
    [ conn |-> {e \in m.conn : e[1] \notin DisposedNodes \cup {"source"}},
      audio |-> [m.audio EXCEPT !.paused = TRUE, !.src = "", !.currentTime = Zero,
                                !.urlRevoked = TRUE] ]

notMedia == <<source, playing, startTime, pauseOffset, state, params, offline,
              setterCalls, graphKind>>

\* play(offset) resumes: audio.currentTime = offset; await audio.play().  With
\* the source emptied, play() is refused once the element has recorded the
\* failure to load, and unpauses the element before that
MediaPlayResumes ==
    /\ graphKind = "media"
    /\ pendingPlays # <<>>
    /\ LET o == Head(pendingPlays)
       IN  \E refused \in IF audio.src = "" THEN BOOLEAN ELSE {FALSE} :
              audio' = [audio EXCEPT
                           !.currentTime = IF o.given /\ audio.src # "" THEN o.offset ELSE @,
                           !.paused = IF refused THEN @ ELSE FALSE]
    /\ pendingPlays' = Tail(pendingPlays)
    /\ UNCHANGED <<conn, endedCallback, currentTime, playCalls, endedCalls, disposeCalls, halted>>
    /\ UNCHANGED notMedia
    /\ UNCHANGED notChain

MediaPause ==
    /\ graphKind = "media"
    /\ audio' = [audio EXCEPT !.paused = TRUE]
    /\ halted' = TRUE
    /\ UNCHANGED <<conn, endedCallback, currentTime, pendingPlays, playCalls, endedCalls,
                   disposeCalls>>
    /\ UNCHANGED notMedia
    /\ UNCHANGED notChain

MediaStop ==
    /\ graphKind = "media"
    /\ audio' = [audio EXCEPT !.paused = TRUE, !.currentTime = Zero]
    /\ halted' = TRUE
    /\ UNCHANGED <<conn, endedCallback, currentTime, pendingPlays, playCalls, endedCalls,
                   disposeCalls>>
    /\ UNCHANGED notMedia
    /\ UNCHANGED notChain

\* seek(time): audio.duration is NaN once the source is emptied
MediaSeek ==
    /\ graphKind = "media"
    /\ \E time \in SeekTimes :
          audio' = IF audio.src # ""
                   THEN [audio EXCEPT !.currentTime = RatMax(Zero, RatMin(time, getDuration))]
                   ELSE audio
    /\ UNCHANGED <<conn, endedCallback, currentTime, pendingPlays, playCalls, endedCalls,
                   disposeCalls, halted>>
    /\ UNCHANGED notMedia
    /\ UNCHANGED notChain

\* a second of the clock: a playing element advances, and at the end of the
\* media pauses and fires 'ended', whose listener calls endedCallback?.()
MediaTick ==
    /\ graphKind = "media"
    /\ currentTime < MaxTime
    /\ currentTime' = currentTime + 1
    /\ IF ~audio.paused /\ audio.src # ""
       THEN LET t == RatMin(RatAdd(audio.currentTime, Rat(1, 1)), getDuration)
            IN  /\ audio' = [audio EXCEPT !.currentTime = t, !.paused = (t = getDuration)]
                /\ endedCalls' = IF t = getDuration /\ endedCallback
                                 THEN endedCalls + 1 ELSE endedCalls
       ELSE UNCHANGED <<audio, endedCalls>>
    /\ UNCHANGED <<conn, endedCallback, pendingPlays, playCalls, disposeCalls, halted>>
    /\ UNCHANGED notMedia
    /\ UNCHANGED notChain

MediaDispose ==
    /\ graphKind = "media"
    /\ disposeCalls < MaxDisposeCalls
    /\ LET m == mediaDispose(mediaNow)
       IN  /\ conn' = m.conn
           /\ audio' = m.audio
    /\ disposeCalls' = disposeCalls + 1
    /\ halted' = TRUE
    /\ UNCHANGED <<endedCallback, currentTime, pendingPlays, playCalls, endedCalls>>
    /\ UNCHANGED notMedia
    /\ UNCHANGED notChain

\* isPlaying()
isPlaying == IF graphKind = "buffer" THEN playing ELSE ~audio.paused

-----------------------------------------------------------------------------
(* The offline graph, buildEffectGraph *)

\* the dry and wet gain of the offline graph
offlineReverbGains(s) ==
    IF s.reverbType = "delay"
    THEN [dry |-> GainDen, wet |-> s.reverb * 45]
    ELSE [dry |-> GainDen - s.reverb * 50, wet |-> s.reverb * 50]

buildEffectGraph(s) ==
    [ built |-> TRUE,
      reverbType |-> s.reverbType,
      reverb |-> s.reverb,
      source |-> [playbackRate |-> s.speed, detune |-> s.detune],
      params |-> [ bassGain |-> s.bass, trebleGain |-> s.treble,
                   lowpassFreq |-> lowpassCutoff(s.lowpass),
                   highpassFreq |-> highpassCutoff(s.highpass),
                   dryGain |-> offlineReverbGains(s).dry,
                   wetGain |-> offlineReverbGains(s).wet,
                   gain |-> s.volume ],
      conn |-> { <<"source", "bass">>, <<"bass", "treble">>, <<"treble", "lowpass">>,
                 <<"lowpass", "highpass">>, <<"highpass", "dryGain">>,
                 <<"highpass", createDelayReverb.send>>,
                 <<"highpass", createOriginalReverb.send>>,
                 <<reverbOf(s.reverbType).bus, "wetGain">>,
                 <<"dryGain", "gain">>, <<"wetGain", "gain">>,
                 <<"gain", "destination">> }
                 \cup createDelayReverb.edges \cup createOriginalReverb.edges ]

\* An export: getState() in the click handler, then the graph of a chunk,
\* which lives until startRendering() resolves
BuildOffline ==
    /\ ~offline.built
    /\ offline' = buildEffectGraph(getState)
    /\ UNCHANGED <<state, params, conn, setterCalls>>
    /\ UNCHANGED playVars
    /\ UNCHANGED notChain

FinishOffline ==
    /\ offline.built
    /\ offline' = NoGraph
    /\ setterCalls' = 0
    /\ UNCHANGED <<state, params, conn>>
    /\ UNCHANGED playVars
    /\ UNCHANGED notChain

\* A setter call of the user interface; those made while a chunk renders are
\* counted, and bounded by MaxSetterCalls
Interleaved ==
    /\ offline.built => setterCalls < MaxSetterCalls
    /\ setterCalls' = IF offline.built THEN setterCalls + 1 ELSE setterCalls
    /\ UNCHANGED notChain

NextChain ==
    \/ \E v \in SpeedArgs : setSpeed(v) /\ Interleaved
    \/ \E c \in DetuneArgs : setDetune(c) /\ Interleaved
    \/ \E db \in ShelfArgs : setBass(db) /\ Interleaved
    \/ \E db \in ShelfArgs : setTreble(db) /\ Interleaved
    \/ \E a \in AmountArgs : setLowpass(a) /\ Interleaved
    \/ \E a \in AmountArgs : setHighpass(a) /\ Interleaved
    \/ \E a \in ReverbArgs : setReverb(a) /\ Interleaved
    \/ \E t \in ReverbTypes : setReverbType(t) /\ Interleaved
    \/ \E v \in VolumeArgs : setVolume(v) /\ Interleaved
    \/ BuildOffline
    \/ FinishOffline

-----------------------------------------------------------------------------
(* Double arithmetic of the renderer.  A number is [m, e], the value        *)
(* m * 2^e with m odd (or m = 0, e = 0) and m < 2^MantBits; every operation *)
(* rounds its exact result to MantBits significant bits, ties to even, as   *)
(* IEEE 754 does with 53 bits.                                              *)

MantBits == 14

RECURSIVE Bits(_)
Bits(n) == IF n = 0 THEN 0 ELSE 1 + Bits(n \div 2)

flZero == [m |-> 0, e |-> 0]

RECURSIVE flStrip(_, _)
flStrip(m, e) ==
    IF m = 0 THEN flZero
    ELSE IF m % 2 = 0 THEN flStrip(m \div 2, e + 1)
    ELSE [m |-> m, e |-> e]

\* (n + r) * 2^e rounded, where 0 <= r < 1 and sticky tells whether r > 0
flRound(n, e, sticky) ==
    IF Bits(n) <= MantBits THEN flStrip(n, e)
    ELSE LET s    == Bits(n) - MantBits
             q    == n \div (2 ^ s)
             rem  == n % (2 ^ s)
             half == 2 ^ (s - 1)
             up   == \/ rem > half
                     \/ rem = half /\ sticky
                     \/ rem = half /\ ~sticky /\ q % 2 = 1
         IN  flStrip(IF up THEN q + 1 ELSE q, e + s)

flFromInt(n) == flRound(n, 0, FALSE)

flMul(a, b) == flRound(a.m * b.m, a.e + b.e, FALSE)

\* the least k with am * 2^k >= 2^MantBits * bm
RECURSIVE flDivShift(_, _, _)
flDivShift(am, bm, k) ==
    IF am * (2 ^ k) >= (2 ^ MantBits) * bm THEN k ELSE flDivShift(am, bm, k + 1)

flDiv(a, b) ==
    IF a.m = 0 THEN flZero
    ELSE LET k == flDivShift(a.m, b.m, 0)
             n == a.m * (2 ^ k)
         IN  flRound(n \div b.m, a.e - b.e - k, n % b.m # 0)

\* the quotient of two whole numbers, each exact as a double
flDivInt(num, den) ==
    LET g == GCD(num, den) IN flDiv(flFromInt(num \div g), flFromInt(den \div g))

\* a and b as whole multiples of one power of two
flAligned(a, b) ==
    LET e == Min(a.e, b.e)
    IN  [a |-> a.m * (2 ^ (a.e - e)), b |-> b.m * (2 ^ (b.e - e)), e |-> e]

flAdd(a, b) == LET x == flAligned(a, b) IN flRound(x.a + x.b, x.e, FALSE)
flSub(a, b) == LET x == flAligned(a, b) IN flRound(x.a - x.b, x.e, FALSE)
flLess(a, b) == LET x == flAligned(a, b) IN x.a < x.b
flMin(a, b) == IF flLess(b, a) THEN b ELSE a

\* Math.ceil of a number >= 0
flCeil(a) ==
    IF a.e >= 0 THEN a.m * (2 ^ a.e)
    ELSE (a.m + (2 ^ (-a.e)) - 1) \div (2 ^ (-a.e))

-----------------------------------------------------------------------------
(* renderOffline *)

RENDER_CHUNK_SECONDS == 60

MaxLen == 200

\* The source buffers and states renderOffline is called with: every length
\* up to MaxLen at a low sample rate, and ten seconds of 44100 Hz stereo at
\* speed 1.25.
RenderJobs ==
    [ length : 1..MaxLen, sampleRate : {3, 5}, channels : {2},
      speed : {50, 100, 125}, detune : {-1200, 0, 1200} ]
    \cup { [ length |-> 441000, sampleRate |-> 44100, channels |-> 2,
             speed |-> 125, detune |-> 0 ] }

NoJob == [length |-> 0]
NoLocals == [effectiveRate |-> flZero, duration |-> flZero, chunkStarts |-> <<>>]
NoChunk == [frames |-> 0]
NoBuffer == [length |-> -1]

\* state.speed, held in hundredths, as a double
speedOf(j) == flDivInt(j.speed, 100)

\* Math.pow(2, detune / 1200) for whole octaves
pow2Cents(detune) == flStrip(1, detune \div 1200)

\* buffer.duration
bufferDuration(j) == flDivInt(j.length, j.sampleRate)

effectiveRateOf(j) == flMul(speedOf(j), pow2Cents(j.detune))

durationOf(j) ==
    IF flLess(flZero, effectiveRateOf(j))
    THEN flDiv(bufferDuration(j), effectiveRateOf(j))
    ELSE bufferDuration(j)

\* for (let t = 0; t < duration; t += RENDER_CHUNK_SECONDS) chunkStarts.push(t)
RECURSIVE chunkStartsFrom(_, _)
chunkStartsFrom(t, duration) ==
    IF flLess(t, duration)
    THEN <<t>> \o chunkStartsFrom(flAdd(t, flFromInt(RENDER_CHUNK_SECONDS)), duration)
    ELSE <<>>

chunkStartsOf(duration) ==
    IF chunkStartsFrom(flZero, duration) = <<>> THEN <<flZero>>
    ELSE chunkStartsFrom(flZero, duration)

\* the end of the chunk that starts at outputStart
outputEndMutantNoClip(outputStart, duration) ==
    flAdd(outputStart, flFromInt(RENDER_CHUNK_SECONDS))

outputEndOf(outputStart, duration) ==
    flMin(flAdd(outputStart, flFromInt(RENDER_CHUNK_SECONDS)), duration)

\* the body of the loop up to the construction of the OfflineAudioContext
chunkOf(outputStart, duration, effectiveRate, sampleRate) ==
    LET outputEnd     == outputEndOf(outputStart, duration)
        chunkDuration == flSub(outputEnd, outputStart)
    IN  [ outputStart    |-> outputStart,
          outputEnd      |-> outputEnd,
          chunkDuration  |-> chunkDuration,
          sourceOffset   |-> flMul(outputStart, effectiveRate),
          sourceDuration |-> flMul(chunkDuration, effectiveRate),
          frames         |-> flCeil(flMul(chunkDuration, flFromInt(sampleRate))) ]

\* Math.round(x) for x >= 0
mathRound(a) ==
    IF a.e >= 0 THEN a.m * (2 ^ a.e)
    ELSE (2 * a.m + (2 ^ (-a.e))) \div (2 ^ (1 - a.e))

percentOfMutantTruncates(i, n) == (100 * i) \div n

\* Math.round(((i + 1) / chunkStarts.length) * 100), i counted from 1 here
percentOf(i, n) == mathRound(flMul(flDivInt(i, n), flFromInt(100)))

RECURSIVE SumFrames(_)
SumFrames(chunks) ==
    IF chunks = <<>> THEN 0 ELSE Head(chunks).frames + SumFrames(Tail(chunks))

concatenateAudioBuffers(buffers, channels, sampleRate) ==
    [channels |-> channels, length |-> SumFrames(buffers), sampleRate |-> sampleRate]

\* a message is the sequence of its characters
includes(msg, pat) ==
    \E i \in 0..(Len(msg) - Len(pat)) : SubSeq(msg, i + 1, i + Len(pat)) = pat

\* what the runtime raises when a buffer cannot be allocated, by engine, and an
\* error that has nothing to do with memory
ArrayBufferAllocationFailed ==
    [ name |-> "RangeError", exhaustion |-> TRUE,
      message |-> <<"A", "r", "r", "a", "y", " ", "b", "u", "f", "f", "e", "r", " ", "a", "l", "l", "o", "c", "a", "t", "i", "o", "n", " ", "f", "a", "i", "l", "e", "d">> ]
OutOfMemory ==
    [ name |-> "RangeError", exhaustion |-> TRUE,
      message |-> <<"O", "u", "t", " ", "o", "f", " ", "m", "e", "m", "o", "r", "y">> ]
AllocationSizeOverflow ==
    [ name |-> "InternalError", exhaustion |-> TRUE,
      message |-> <<"a", "l", "l", "o", "c", "a", "t", "i", "o", "n", " ", "s", "i", "z", "e", " ", "o", "v", "e", "r", "f", "l", "o", "w">> ]
InvalidState ==
    [ name |-> "InvalidStateError", exhaustion |-> FALSE,
      message |-> <<"c", "a", "n", "n", "o", "t", " ", "c", "a", "l", "l", " ", "s", "t", "a", "r", "t", " ", "m", "o", "r", "e", " ", "t", "h", "a", "n", " ", "o", "n", "c", "e">> ]
RuntimeErrors == { ArrayBufferAllocationFailed, OutOfMemory, AllocationSizeOverflow, InvalidState }

\* line 166
RenderFailedError ==
    [ name |-> "Error", exhaustion |-> TRUE,
      message |-> <<"R", "e", "n", "d", "e", "r", " ", "f", "a", "i", "l", "e", "d", ":", " ", "f", "i", "l", "e", " ", "m", "a", "y", " ", "b", "e", " ", "t", "o", "o", " ", "l", "o", "n", "g", " ", "o", "r", " ", "s", "y", "s", "t", "e", "m", " ", "r", "a", "n", " ", "o", "u", "t", " ", "o", "f", " ", "m", "e", "m", "o", "r", "y", ".", " ", "T", "r", "y", " ", "a", " ", "s", "h", "o", "r", "t", "e", "r", " ", "c", "l", "i", "p", " ", "o", "r", " ", "f", "e", "w", "e", "r", " ", "e", "f", "f", "e", "c", "t", "s", ".">> ]

NoError == [raised |-> FALSE]

\* lines 163-169: the catch block
catchOf(err) ==
    LET msg == err.message
    IN  IF \/ includes(msg, <<"R", "a", "n", "g", "e", "E", "r", "r", "o", "r">>)
           \/ includes(msg, <<"m", "e", "m", "o", "r", "y">>)
           \/ includes(msg, <<"a", "l", "l", "o", "c", "a", "t", "e">>)
        THEN [raised |-> TRUE, cause |-> err, error |-> RenderFailedError]
        ELSE [raised |-> TRUE, cause |-> err, error |-> err]

RenderIdle ==
    /\ job = NoJob
    /\ rpc = "idle"
    /\ rl = NoLocals
    /\ ri = 0
    /\ chunk = NoChunk
    /\ renderedChunks = <<>>
    /\ progress = <<>>
    /\ rendered = NoBuffer
    /\ thrown = NoError

InitRender ==
    /\ job \in RenderJobs
    /\ rpc = "called"
    /\ rl = NoLocals
    /\ ri = 0
    /\ chunk = NoChunk
    /\ renderedChunks = <<>>
    /\ progress = <<>>
    /\ rendered = NoBuffer
    /\ thrown = NoError

\* lines 128-139: the rate, the duration and the chunk starts
RenderStart ==
    /\ rpc = "called"
    /\ rl' = [ effectiveRate |-> effectiveRateOf(job),
               duration      |-> durationOf(job),
               chunkStarts   |-> chunkStartsOf(durationOf(job)) ]
    /\ ri' = 1
    /\ rpc' = "loop"
    /\ UNCHANGED <<job, chunk, renderedChunks, progress, rendered, thrown>>
    /\ UNCHANGED notRender

\* lines 141-154: one chunk up to await offline.startRendering()
RenderChunk ==
    /\ rpc = "loop"
    /\ ri <= Len(rl.chunkStarts)
    /\ chunk' = chunkOf(rl.chunkStarts[ri], rl.duration, rl.effectiveRate, job.sampleRate)
    /\ rpc' = "rendering"
    /\ UNCHANGED <<job, rl, ri, renderedChunks, progress, rendered, thrown>>
    /\ UNCHANGED notRender

\* lines 154-159: the chunk is rendered with chunkFrames frames, pushed and reported
ChunkRendered ==
    /\ rpc = "rendering"
    /\ renderedChunks' = Append(renderedChunks, chunk)
    /\ progress' = Append(progress, percentOf(ri, Len(rl.chunkStarts)))
    /\ rpc' = "yield"
    /\ UNCHANGED <<job, rl, ri, chunk, rendered, thrown>>
    /\ UNCHANGED notRender

\* yieldToMain() resumes: i++
RenderResume ==
    /\ rpc = "yield"
    /\ ri' = ri + 1
    /\ rpc' = "loop"
    /\ UNCHANGED <<job, rl, chunk, renderedChunks, progress, rendered, thrown>>
    /\ UNCHANGED notRender

\* line 162: the loop is over
RenderReturn ==
    /\ rpc = "loop"
    /\ ri > Len(rl.chunkStarts)
    /\ rendered' = concatenateAudioBuffers(renderedChunks, job.channels, job.sampleRate)
    /\ rpc' = "done"
    /\ UNCHANGED <<job, rl, ri, chunk, renderedChunks, progress, thrown>>
    /\ UNCHANGED notRender

\* line 149: new OfflineAudioContext(channels, chunkFrames, sampleRate) throws
RenderAllocationFails ==
    /\ rpc = "loop"
    /\ ri <= Len(rl.chunkStarts)
    /\ \E err \in RuntimeErrors : thrown' = catchOf(err)
    /\ rpc' = "failed"
    /\ UNCHANGED <<job, rl, ri, chunk, renderedChunks, progress, rendered>>
    /\ UNCHANGED notRender

\* line 154: the promise of offline.startRendering() is rejected
RenderingFails ==
    /\ rpc = "rendering"
    /\ \E err \in RuntimeErrors : thrown' = catchOf(err)
    /\ rpc' = "failed"
    /\ UNCHANGED <<job, rl, ri, chunk, renderedChunks, progress, rendered>>
    /\ UNCHANGED notRender

\* line 178: createBuffer throws inside concatenateAudioBuffers
ConcatenationFails ==
    /\ rpc = "loop"
    /\ ri > Len(rl.chunkStarts)
    /\ \E err \in RuntimeErrors : thrown' = catchOf(err)
    /\ rpc' = "failed"
    /\ UNCHANGED <<job, rl, ri, chunk, renderedChunks, progress, rendered>>
    /\ UNCHANGED notRender

NextRender ==
    \/ RenderStart
    \/ RenderChunk
    \/ ChunkRendered
    \/ RenderResume
    \/ RenderReturn
    \/ RenderAllocationFails
    \/ RenderingFails
    \/ ConcatenationFails

-----------------------------------------------------------------------------
(* Exports in flight: the renderOffline invocations of the download handlers, *)
(* interleaved with each other at their awaits and with the setters of the    *)
(* live chain.                                                                *)

ExportIds == {1, 2}

\* graph.__buffer: seventy seconds at 3 Hz, the buffer every export reads
ExportBuffer == [length |-> 210, sampleRate |-> 3, channels |-> 2]

\* the setter calls made while exports are in flight
ExportSpeedArgs == {50}
ExportReverbArgs == {30}

NoExport == [pc |-> "none"]

ExportsIdle == exports = [e \in ExportIds |-> NoExport]

\* what renderOffline's arithmetic reads of its arguments
jobOf(buffer, s) ==
    [ length |-> buffer.length, sampleRate |-> buffer.sampleRate,
      channels |-> buffer.channels, speed |-> s.speed, detune |-> s.detune ]

argStateMutantLiveState(e) == state

\* the state parameter of an invocation: the object getState() returned
argState(e) == e.state

\* lines 141-154 for chunk i: the window, and the graph buildEffectGraph makes
renderedChunkOf(e, i) ==
    [ chunk |-> chunkOf(e.rl.chunkStarts[i], e.rl.duration, e.rl.effectiveRate,
                        e.buffer.sampleRate),
      graph |-> buildEffectGraph(argState(e)) ]

chunksOnly(pushed) == [i \in 1..Len(pushed) |-> pushed[i].chunk]

\* controls.ts: state = graph.getState(), then renderOffline up to its loop
ExportStart(e) ==
    /\ exports[e].pc = "none"
    /\ LET call == [state |-> getState, buffer |-> ExportBuffer]
           j == jobOf(call.buffer, argState(call))
       IN  exports' = [exports EXCEPT ![e] =
              [ pc |-> "loop", state |-> call.state, buffer |-> call.buffer,
                rl |-> [ effectiveRate |-> effectiveRateOf(j),
                         duration      |-> durationOf(j),
                         chunkStarts   |-> chunkStartsOf(durationOf(j)) ],
                i |-> 1, chunk |-> NoChunk, renderedChunks |-> <<>>,
                rendered |-> NoBuffer ]]
    /\ UNCHANGED notExports

\* one chunk up to await offline.startRendering()
ExportChunk(e) ==
    /\ exports[e].pc = "loop"
    /\ exports[e].i <= Len(exports[e].rl.chunkStarts)
    /\ exports' = [exports EXCEPT ![e].chunk = renderedChunkOf(exports[e], exports[e].i),
                                  ![e].pc = "rendering"]
    /\ UNCHANGED notExports

\* the chunk is rendered and pushed; await yieldToMain()
ExportChunkRendered(e) ==
    /\ exports[e].pc = "rendering"
    /\ exports' = [exports EXCEPT
                      ![e].renderedChunks = Append(@, exports[e].chunk),
                      ![e].pc = "yield"]
    /\ UNCHANGED notExports

ExportResume(e) ==
    /\ exports[e].pc = "yield"
    /\ exports' = [exports EXCEPT ![e].i = @ + 1, ![e].pc = "loop"]
    /\ UNCHANGED notExports

\* line 162
ExportReturn(e) ==
    /\ exports[e].pc = "loop"
    /\ exports[e].i > Len(exports[e].rl.chunkStarts)
    /\ exports' = [exports EXCEPT
                      ![e].rendered =
                          concatenateAudioBuffers(chunksOnly(exports[e].renderedChunks),
                                                  exports[e].buffer.channels,
                                                  exports[e].buffer.sampleRate),
                      ![e].pc = "done"]
    /\ UNCHANGED notExports

NextExports ==
    \/ \E e \in ExportIds : ExportStart(e)
    \/ \E e \in ExportIds : ExportChunk(e)
    \/ \E e \in ExportIds : ExportChunkRendered(e)
    \/ \E e \in ExportIds : ExportResume(e)
    \/ \E e \in ExportIds : ExportReturn(e)
    \/ \E v \in ExportSpeedArgs : setSpeed(v) /\ Interleaved
    \/ \E a \in ExportReverbArgs : setReverb(a) /\ Interleaved
    \/ \E t \in ReverbTypes : setReverbType(t) /\ Interleaved

-----------------------------------------------------------------------------
(* The download menu of the controls: the dropdown button, the WAV and MP3 *)
(* items and their click handlers.  A file name is the sequence of its       *)
(* characters.                                                               *)

MaxExportClicks == 2

FileNames ==
    { <<"s", ".", "m", "p", "3">>, <<"a", ".", "b", ".", "w", "a", "v">>,
      <<"n", "o", "e", "x", "t">>, <<"x", ".">> }

NoHandler == [pc |-> "none"]
NoStatus == <<>>
ExportNotAvailable == <<"Export not available for M4A/MP4 playback-only mode.", "error">>
ExportFailed == <<"Export failed. Please try again.", "error">>

DownloadLabel == "Download"
RenderingLabel == "Rendering..."

\* _originalFilename.replace(/\.[^.]+$/, ''): the last dot and what follows it
\* are dropped, if something follows it
baseNameOf(name) ==
    LET dots == {i \in 1..Len(name) : name[i] = "."}
    IN  IF dots = {} THEN name
        ELSE LET last == CHOOSE i \in dots : \A k \in dots : k <= i
             IN  IF last = Len(name) THEN name ELSE SubSeq(name, 1, last - 1)

\* `${baseName}_modified.wav` / `${baseName}_modified.mp3`
modifiedName(name, kind) ==
    baseNameOf(name) \o <<"_", "m", "o", "d", "i", "f", "i", "e", "d", ".">>
        \o (IF kind = "wav" THEN <<"w", "a", "v">> ELSE <<"m", "p", "3">>)

\* what renderAndDownload / renderAndDownloadMp3 resolve with
blobOf(kind, click) ==
    [type |-> IF kind = "wav" THEN "audio/wav" ELSE "audio/mpeg", export |-> click]

\* triggerDownload(blob, filename): an anchor with the blob's URL is clicked
triggerDownload(triggered, blob, filename) ==
    Append(triggered, [blob |-> blob, filename |-> filename])

UiIdle ==
    /\ controls = [originalFilename |-> <<>>, buffer |-> FALSE]
    /\ downloadDropdownBtn = [disabled |-> FALSE, textContent |-> DownloadLabel]
    /\ downloadMenuHidden = TRUE
    /\ status = NoStatus
    /\ handler = NoHandler
    /\ downloads = <<>>
    /\ exportClicks = 0

\* initControls(graph, visualizer, file.name, metadata, audioBuffer): a decoded
\* buffer, or none for a media-element graph
InitUi ==
    /\ controls \in [originalFilename : FileNames, buffer : BOOLEAN]
    /\ downloadDropdownBtn = [disabled |-> FALSE, textContent |-> DownloadLabel]
    /\ downloadMenuHidden = TRUE
    /\ status = NoStatus
    /\ handler = NoHandler
    /\ downloads = <<>>
    /\ exportClicks = 0

\* click on the dropdown button
DropdownClick ==
    /\ downloadMenuHidden' = IF downloadDropdownBtn.disabled THEN downloadMenuHidden
                             ELSE ~downloadMenuHidden
    /\ UNCHANGED <<controls, downloadDropdownBtn, status, handler, downloads, exportClicks>>
    /\ UNCHANGED notUi

\* click anywhere else in the document
DocumentClick ==
    /\ downloadMenuHidden' = TRUE
    /\ UNCHANGED <<controls, downloadDropdownBtn, status, handler, downloads, exportClicks>>
    /\ UNCHANGED notUi

\* click on the WAV or the MP3 item of the open menu, up to the first await
ItemClick ==
    /\ ~downloadMenuHidden
    /\ handler.pc \in {"none", "returned"}
    /\ exportClicks < MaxExportClicks
    /\ exportClicks' = exportClicks + 1
    /\ \E kind \in {"wav", "mp3"} :
          IF ~controls.buffer
          THEN /\ status' = ExportNotAvailable
               /\ handler' = [pc |-> "returned", kind |-> kind, click |-> exportClicks',
                              outcome |-> "not available"]
               /\ UNCHANGED <<downloadMenuHidden, downloadDropdownBtn>>
          ELSE /\ downloadMenuHidden' = TRUE
               /\ downloadDropdownBtn' = [disabled |-> TRUE, textContent |-> RenderingLabel]
               /\ handler' = [pc |-> "import", kind |-> kind, click |-> exportClicks']
               /\ UNCHANGED status
    /\ UNCHANGED <<controls, downloads>>
    /\ UNCHANGED notUi

\* the import resolves: getState(), baseName; the MP3 handler goes on to the
\* metadata and the album art, the WAV handler calls renderAndDownload
HandlerImported ==
    /\ handler.pc = "import"
    /\ handler' = [ pc |-> IF handler.kind = "wav" THEN "rendering" ELSE "metadata",
                    kind |-> handler.kind, click |-> handler.click,
                    state |-> getState,
                    filename |-> modifiedName(controls.originalFilename, handler.kind) ]
    /\ UNCHANGED <<controls, downloadDropdownBtn, downloadMenuHidden, status, downloads,
                   exportClicks>>
    /\ UNCHANGED notUi

\* the metadata is complete or fetched and the album art fetched or skipped;
\* renderAndDownloadMp3 is called
HandlerMetadata ==
    /\ handler.pc = "metadata"
    /\ handler' = [handler EXCEPT !.pc = "rendering"]
    /\ UNCHANGED <<controls, downloadDropdownBtn, downloadMenuHidden, status, downloads,
                   exportClicks>>
    /\ UNCHANGED notUi

\* finally: the button is enabled and relabelled
finallyBtn == [disabled |-> FALSE, textContent |-> DownloadLabel]

\* renderAndDownload / renderAndDownloadMp3 resolves with the Blob, which the
\* handler drops; then finally
HandlerRendered ==
    /\ handler.pc = "rendering"
    /\ handler' = [ pc |-> "returned", kind |-> handler.kind, click |-> handler.click,
                    outcome |-> "encoded", filename |-> handler.filename,
                    blob |-> blobOf(handler.kind, handler.click) ]
    /\ downloadDropdownBtn' = finallyBtn
    /\ UNCHANGED <<controls, downloadMenuHidden, status, downloads, exportClicks>>
    /\ UNCHANGED notUi

\* an await of the try block rejects: catch, then finally
HandlerCatches ==
    /\ handler.pc \in {"import", "metadata", "rendering"}
    /\ handler' = [ pc |-> "returned", kind |-> handler.kind, click |-> handler.click,
                    outcome |-> "failed" ]
    /\ status' = ExportFailed
    /\ downloadDropdownBtn' = finallyBtn
    /\ UNCHANGED <<controls, downloadMenuHidden, downloads, exportClicks>>
    /\ UNCHANGED notUi

NextUi ==
    \/ DocumentClick
    \/ DropdownClick
    \/ ItemClick
    \/ HandlerImported
    \/ HandlerMetadata
    \/ HandlerRendered
    \/ HandlerCatches

-----------------------------------------------------------------------------
(* encodeWAV and floatToInt16.  A sample is [nan, v]: NaN, or v / SampleDen. *)
(* A buffer holds per channel a short pattern that repeats over its length;  *)
(* of the samples written the first HeadLen are kept, the rest are counted.  *)

SampleDen == 1000
HeadLen == 4
WAV_BLOCK_SAMPLES == 100000

Num(v) == [nan |-> FALSE, v |-> v]
NaN == [nan |-> TRUE, v |-> 0]

\* every value from -1.5 to 1.5 in steps of 1 / SampleDen
AllSamples == {Num(v) : v \in (-(3 * SampleDen) \div 2)..((3 * SampleDen) \div 2)}

PatternSamples == {NaN, Num(-SampleDen - 1), Num(-SampleDen), Num(-1), Num(0), Num(SampleDen)}

EncBuffers ==
    { [channels |-> c, sampleRate |-> r, length |-> n, data |-> d] :
        c \in {1}, r \in {44100}, n \in {1},
        d \in [1..1 -> [1..1 -> AllSamples]] }
    \cup
    { [channels |-> 1, sampleRate |-> r, length |-> n, data |-> d] :
        r \in {8000, 44100}, n \in {1, 3, WAV_BLOCK_SAMPLES, 2 * WAV_BLOCK_SAMPLES + 1},
        d \in [1..1 -> [1..2 -> PatternSamples]] }
    \cup
    { [channels |-> 2, sampleRate |-> r, length |-> n, data |-> d] :
        r \in {44100}, n \in {2, WAV_BLOCK_SAMPLES + 1, 352800},
        d \in [1..2 -> [1..2 -> {NaN, Num(-SampleDen), Num(SampleDen \div 2)}]] }

\* channelData[ch][j], j counted from 0
sampleAt(buf, ch, j) == buf.data[ch][(j % Len(buf.data[ch])) + 1]

\* what storing a number into an Int16 slot keeps (NaN is stored as 0)
toInt16(x) == IF x.nan THEN 0 ELSE ((x.v + 32768) % 65536) - 32768

\* Math.max(-1, Math.min(1, sample)); NaN stays NaN
clampSample(x) == IF x.nan THEN x ELSE Num(Max(-SampleDen, Min(SampleDen, x.v)))

\* lines 238-242 of encodeWAV, then view.setInt16
wavInt16MutantSymmetric(x) ==
    LET s == clampSample(x)
    IN  IF s.nan THEN 0 ELSE toInt16(Num(Min(32767, (s.v * 32767) \div SampleDen)))

wavInt16(x) ==
    LET s == clampSample(x)
    IN  IF s.nan THEN toInt16(s)
        ELSE IF s.v < 0
             THEN toInt16(Num(Max(-32768, (s.v * 32768) \div SampleDen)))
             ELSE toInt16(Num(Min(32767, (s.v * 32767) \div SampleDen)))

\* lines 269-270 of floatToInt16: one element of the Int16Array
floatToInt16(x) ==
    LET s == clampSample(x)
    IN  IF s.nan THEN toInt16(s)
        ELSE toInt16(Num(IF s.v < 0 THEN Max(-32768, (s.v * 32768) \div SampleDen)
                                    ELSE Min(32767, (s.v * 32767) \div SampleDen)))

\* DataView.setUint32 / setUint16 (little endian) and writeString
u32le(v) == << v % 256, (v \div 256) % 256, (v \div 65536) % 256, (v \div 16777216) % 256 >>
u16le(v) == << v % 256, (v \div 256) % 256 >>
RIFF == <<82, 73, 70, 70>>
WAVE == <<87, 65, 86, 69>>
FMT  == <<102, 109, 116, 32>>
DATA == <<100, 97, 116, 97>>

blockAlignMutantMono(buf) == 2

blockAlignOf(buf) == buf.channels * (16 \div 8)
dataSizeOf(buf) == buf.length * blockAlignOf(buf)
fileSizeOf(buf) == 44 + dataSizeOf(buf)

\* lines 210-224: the 44 header bytes
wavHeader(buf) ==
    RIFF \o u32le(fileSizeOf(buf) - 8) \o WAVE
        \o FMT \o u32le(16) \o u16le(1) \o u16le(buf.channels)
        \o u32le(buf.sampleRate) \o u32le(buf.sampleRate * blockAlignOf(buf))
        \o u16le(blockAlignOf(buf)) \o u16le(16)
        \o DATA \o u32le(dataSizeOf(buf))

\* the samples of frames from..(to - 1), interleaved, as far as they are kept
RECURSIVE keptSamples(_, _, _, _, _)
keptSamples(buf, j, ch, to, room) ==
    IF j >= to \/ room <= 0 THEN <<>>
    ELSE <<wavInt16(sampleAt(buf, ch, j))>>
            \o (IF ch < buf.channels
                THEN keptSamples(buf, j, ch + 1, to, room - 1)
                ELSE keptSamples(buf, j + 1, 1, to, room - 1))

RECURSIVE pcmHead(_, _, _)
pcmHead(buf, ch, j) ==
    IF j >= buf.length \/ j >= HeadLen THEN <<>>
    ELSE <<floatToInt16(sampleAt(buf, ch, j))>> \o pcmHead(buf, ch, j + 1)

NoWav == [byteLength |-> 0, header |-> <<>>, head |-> <<>>, offset |-> 0, processed |-> 0]
NoPcm == [converted |-> FALSE]

MP3_CHUNK == 1152
MP3_YIELD_EVERY_CHUNKS == 500

\* encodeMp3 before its first statement; lamejs tells whether
\* window.lamejs.Mp3Encoder is there
NoMp3 ==
    [ lamejs |-> TRUE, i |-> 0, chunkCount |-> 0, totalChunks |-> 0,
      calls |-> 0, fed |-> 0, lastCall |-> <<>>, chunks |-> 0, bytes |-> 0,
      flushes |-> 0, progress |-> <<>>, out |-> <<>>, error |-> <<>> ]

EncodeIdle ==
    /\ encBuffer = [length |-> 0]
    /\ wpc = "idle"
    /\ wav = NoWav
    /\ wi = 0
    /\ wavProgress = <<>>
    /\ mp3pcm = NoPcm
    /\ mpc = "idle"
    /\ mp3 = NoMp3

InitEncode ==
    /\ encBuffer \in EncBuffers
    /\ wpc = "called"
    /\ wav = NoWav
    /\ wi = 0
    /\ wavProgress = <<>>
    /\ mp3pcm = NoPcm
    /\ mpc = "called"
    /\ mp3 = NoMp3

\* lines 197-232: sizes, allocation, header
EncodeWavHeader ==
    /\ wpc = "called"
    /\ wav' = [ byteLength |-> fileSizeOf(encBuffer), header |-> wavHeader(encBuffer),
                head |-> <<>>, offset |-> 44, processed |-> 0 ]
    /\ wi' = 0
    /\ wpc' = "block"
    /\ UNCHANGED <<encBuffer, wavProgress, mp3pcm, mpc, mp3>>
    /\ UNCHANGED notEncode

\* lines 233-251: one block; a progress report and a yield when frames remain
EncodeWavBlock ==
    /\ wpc = "block"
    /\ wi < encBuffer.length
    /\ LET blockEnd == Min(wi + WAV_BLOCK_SAMPLES, encBuffer.length)
       IN  /\ wav' = [wav EXCEPT
                 !.head = @ \o keptSamples(encBuffer, wi, 1, blockEnd, HeadLen - Len(@)),
                 !.offset = @ + 2 * encBuffer.channels * (blockEnd - wi),
                 !.processed = blockEnd]
           /\ IF blockEnd < encBuffer.length
              THEN /\ wavProgress' = Append(wavProgress,
                           mathRound(flMul(flDivInt(blockEnd, encBuffer.length), flFromInt(100))))
                   /\ wpc' = "yield"
              ELSE /\ wavProgress' = wavProgress
                   /\ wpc' = "block"
           /\ wi' = IF blockEnd < encBuffer.length THEN wi ELSE wi + WAV_BLOCK_SAMPLES
    /\ UNCHANGED <<encBuffer, mp3pcm, mpc, mp3>>
    /\ UNCHANGED notEncode

\* yieldToMain() resumes: i += WAV_BLOCK_SAMPLES
EncodeWavResume ==
    /\ wpc = "yield"
    /\ wi' = wi + WAV_BLOCK_SAMPLES
    /\ wpc' = "block"
    /\ UNCHANGED <<encBuffer, wav, wavProgress, mp3pcm, mpc, mp3>>
    /\ UNCHANGED notEncode

\* line 254: the Blob of the ArrayBuffer
EncodeWavReturn ==
    /\ wpc = "block"
    /\ wi >= encBuffer.length
    /\ wpc' = "done"
    /\ UNCHANGED <<encBuffer, wav, wi, wavProgress, mp3pcm, mpc, mp3>>
    /\ UNCHANGED notEncode

\* encodeMp3 lines 279-282: left and right as 16-bit integers
EncodeMp3Convert ==
    /\ mpc = "called"
    /\ ~mp3pcm.converted
    /\ mpc' = "converted"
    /\ mp3pcm' = [ converted |-> TRUE,
                   left  |-> pcmHead(encBuffer, 1, 0),
                   right |-> IF encBuffer.channels > 1 THEN pcmHead(encBuffer, 2, 0)
                             ELSE pcmHead(encBuffer, 1, 0) ]
    /\ UNCHANGED <<encBuffer, wpc, wav, wi, wavProgress, mp3>>
    /\ UNCHANGED notEncode

NextEncode ==
    \/ EncodeWavHeader
    \/ EncodeWavBlock
    \/ EncodeWavResume
    \/ EncodeWavReturn
    \/ EncodeMp3Convert

-----------------------------------------------------------------------------
(* encodeMp3 after the conversion.  The frame encoder is external: each call *)
(* returns some bytes (none, or FrameBytes of them) or throws.                *)

FrameBytes == 627

\* the buffers encodeMp3 is followed on: up to three frames, and two long
\* enough for a progress report, one of them ending on the reported frame
Mp3SourceBuffers ==
    { [channels |-> c, sampleRate |-> 44100, length |-> n,
       data |-> [ch \in 1..c |-> <<Num(0)>>]] :
        c \in {1, 2}, n \in {1, MP3_CHUNK, MP3_CHUNK + 1, 3000} }
    \cup { [channels |-> 1, sampleRate |-> 44100, length |-> n,
            data |-> <<<<Num(0)>>>>] :
              n \in { MP3_CHUNK * MP3_YIELD_EVERY_CHUNKS,
                      MP3_CHUNK * MP3_YIELD_EVERY_CHUNKS + 1 } }

\* line 294
EncoderUnavailableError ==
    [ name |-> "Error",
      message |-> <<"M", "P", "3", " ", "e", "x", "p", "o", "r", "t", " ", "r", "e", "q", "u", "i", "r", "e", "s", " ", "l", "a", "m", "e", "j", "s", ".", " ", "R", "e", "l", "o", "a", "d", " ", "t", "h", "e", " ", "p", "a", "g", "e", " ", "a", "n", "d", " ", "t", "r", "y", " ", "a", "g", "a", "i", "n", ".">> ]

\* line 325
EncodingFailedError ==
    [ name |-> "Error",
      message |-> <<"M", "P", "3", " ", "e", "n", "c", "o", "d", "i", "n", "g", " ", "f", "a", "i", "l", "e", "d", ".", " ", "T", "h", "e", " ", "f", "i", "l", "e", " ", "m", "a", "y", " ", "b", "e", " ", "t", "o", "o", " ", "l", "o", "n", "g", ".", " ", "T", "r", "y", " ", "e", "x", "p", "o", "r", "t", "i", "n", "g", " ", "a", "s", " ", "W", "A", "V", " ", "i", "n", "s", "t", "e", "a", "d", ".">> ]

\* what the external encoder throws
EncoderThrew ==
    [ name |-> "TypeError",
      message |-> <<"C", "a", "n", "n", "o", "t", " ", "r", "e", "a", "d", " ", "p", "r", "o", "p", "e", "r", "t", "i", "e", "s", " ", "o", "f", " ", "u", "n", "d", "e", "f", "i", "n", "e", "d">> ]

\* lines 324-326: the catch block
mp3CatchMutantRethrow(err) == err

mp3CatchOf(err) == EncodingFailedError

InitMp3 ==
    /\ encBuffer \in Mp3SourceBuffers
    /\ wpc = "idle"
    /\ wav = NoWav
    /\ wi = 0
    /\ wavProgress = <<>>
    /\ mp3pcm = NoPcm
    /\ mpc = "called"
    /\ mp3 \in { [NoMp3 EXCEPT !.lamejs = b] : b \in BOOLEAN }

\* lines 293-295: no encoder on window
Mp3NoEncoder ==
    /\ mpc = "converted"
    /\ ~mp3.lamejs
    /\ mp3' = [mp3 EXCEPT !.error = <<EncoderUnavailableError>>]
    /\ mpc' = "failed"
    /\ UNCHANGED <<encBuffer, wpc, wav, wi, wavProgress, mp3pcm>>
    /\ UNCHANGED notEncode

\* lines 297-301: the encoder is constructed
Mp3Construct ==
    /\ mpc = "converted"
    /\ mp3.lamejs
    /\ mp3' = [mp3 EXCEPT !.i = 0, !.chunkCount = 0,
                          !.totalChunks = (encBuffer.length + MP3_CHUNK - 1) \div MP3_CHUNK]
    /\ mpc' = "loop"
    /\ UNCHANGED <<encBuffer, wpc, wav, wi, wavProgress, mp3pcm>>
    /\ UNCHANGED notEncode

\* line 298 throws; line 325
Mp3ConstructThrows ==
    /\ mpc = "converted"
    /\ mp3.lamejs
    /\ mp3' = [mp3 EXCEPT !.error = <<mp3CatchOf(EncoderThrew)>>]
    /\ mpc' = "failed"
    /\ UNCHANGED <<encBuffer, wpc, wav, wi, wavProgress, mp3pcm>>
    /\ UNCHANGED notEncode

subarrayEndMutantNoClamp(i) == i + MP3_CHUNK

\* left.subarray(i, i + MP3_CHUNK): the end is clamped to the length
subarrayEnd(i) == Min(i + MP3_CHUNK, encBuffer.length)

\* lines 303-312: one frame; every MP3_YIELD_EVERY_CHUNKS frames a report and a yield
Mp3Frame ==
    /\ mpc = "loop"
    /\ mp3.i < encBuffer.length
    /\ \E len \in {0, FrameBytes} :
          LET count == mp3.chunkCount + 1
              yields == count % MP3_YIELD_EVERY_CHUNKS = 0
          IN  /\ mp3' = [mp3 EXCEPT
                    !.calls = @ + 1,
                    !.fed = @ + (subarrayEnd(mp3.i) - mp3.i),
                    !.lastCall = << [ left  |-> [channel |-> 1, from |-> mp3.i,
                                                 to |-> subarrayEnd(mp3.i)],
                                      right |-> [channel |-> IF encBuffer.channels > 1
                                                             THEN 2 ELSE 1,
                                                 from |-> mp3.i,
                                                 to |-> subarrayEnd(mp3.i)] ] >>,
                    !.chunks = IF len > 0 THEN @ + 1 ELSE @,
                    !.bytes = @ + len,
                    !.chunkCount = count,
                    !.progress = IF yields
                                 THEN Append(@, mathRound(flMul(flDivInt(count, mp3.totalChunks),
                                                                flFromInt(100))))
                                 ELSE @,
                    !.i = IF yields THEN @ ELSE @ + MP3_CHUNK]
              /\ mpc' = IF yields THEN "yield" ELSE "loop"
    /\ UNCHANGED <<encBuffer, wpc, wav, wi, wavProgress, mp3pcm>>
    /\ UNCHANGED notEncode

\* encoder.encodeBuffer throws; line 325
Mp3FrameThrows ==
    /\ mpc = "loop"
    /\ mp3.i < encBuffer.length
    /\ mp3' = [mp3 EXCEPT !.error = <<mp3CatchOf(EncoderThrew)>>]
    /\ mpc' = "failed"
    /\ UNCHANGED <<encBuffer, wpc, wav, wi, wavProgress, mp3pcm>>
    /\ UNCHANGED notEncode

\* yieldToMain() resumes: i += MP3_CHUNK
Mp3Resume ==
    /\ mpc = "yield"
    /\ mp3' = [mp3 EXCEPT !.i = @ + MP3_CHUNK]
    /\ mpc' = "loop"
    /\ UNCHANGED <<encBuffer, wpc, wav, wi, wavProgress, mp3pcm>>
    /\ UNCHANGED notEncode

\* lines 314-323: flush, then the chunks are joined and returned
Mp3Flush ==
    /\ mpc = "loop"
    /\ mp3.i >= encBuffer.length
    /\ \E len \in {0, FrameBytes} :
          mp3' = [mp3 EXCEPT
                    !.flushes = @ + 1,
                    !.chunks = IF len > 0 THEN @ + 1 ELSE @,
                    !.bytes = @ + len,
                    !.out = << [byteLength |-> mp3.bytes + len] >>]
    /\ mpc' = "done"
    /\ UNCHANGED <<encBuffer, wpc, wav, wi, wavProgress, mp3pcm>>
    /\ UNCHANGED notEncode

\* encoder.flush throws; line 325
Mp3FlushThrows ==
    /\ mpc = "loop"
    /\ mp3.i >= encBuffer.length
    /\ mp3' = [mp3 EXCEPT !.flushes = @ + 1, !.error = <<mp3CatchOf(EncoderThrew)>>]
    /\ mpc' = "failed"
    /\ UNCHANGED <<encBuffer, wpc, wav, wi, wavProgress, mp3pcm>>
    /\ UNCHANGED notEncode

NextMp3 ==
    \/ EncodeMp3Convert
    \/ Mp3NoEncoder
    \/ Mp3Construct
    \/ Mp3ConstructThrows
    \/ Mp3Frame
    \/ Mp3FrameThrows
    \/ Mp3Resume
    \/ Mp3Flush
    \/ Mp3FlushThrows

-----------------------------------------------------------------------------
(* truncateForId3v1 and writeMp3Tags.  A string is the sequence of its UTF-16 *)
(* code units, each named by its kind: "a" an ASCII character, "sp" a space,  *)
(* "e2" / "e3" a character of two / three UTF-8 bytes, "hi" and "lo" the two  *)
(* halves of a surrogate pair (one character of four UTF-8 bytes).            *)

ID3V1_MAX_BYTES == 30
ID3V1_YEAR_MAX_BYTES == 4
MaxAscii == 40

RECURSIVE Rep(_, _)
Rep(u, n) == IF n <= 0 THEN <<>> ELSE <<u>> \o Rep(u, n - 1)

\* a field that is undefined on the metadata object
Undefined == <<"undefined">>

\* new TextEncoder().encode(s).length: a lone surrogate is encoded as U+FFFD
RECURSIVE utf8Length(_)
utf8Length(s) ==
    IF s = <<>> THEN 0
    ELSE IF s[1] \in {"a", "sp"} THEN 1 + utf8Length(Tail(s))
    ELSE IF s[1] = "e2" THEN 2 + utf8Length(Tail(s))
    ELSE IF s[1] = "e3" THEN 3 + utf8Length(Tail(s))
    ELSE IF s[1] = "hi" /\ Len(s) > 1 /\ s[2] = "lo" THEN 4 + utf8Length(Tail(Tail(s)))
    ELSE 3 + utf8Length(Tail(s))

\* s.slice(0, -1): all code units but the last
sliceLast(s) == SubSeq(s, 1, Len(s) - 1)

RECURSIVE truncateForId3v1(_, _)
truncateForId3v1(s, maxBytes) ==
    IF Len(s) > 0 /\ utf8Length(s) > maxBytes
    THEN truncateForId3v1(sliceLast(s), maxBytes)
    ELSE s

\* String.prototype.trim
RECURSIVE trimStart(_)
trimStart(s) == IF s # <<>> /\ s[1] = "sp" THEN trimStart(Tail(s)) ELSE s
RECURSIVE trimEnd(_)
trimEnd(s) == IF s # <<>> /\ s[Len(s)] = "sp" THEN trimEnd(sliceLast(s)) ELSE s
trim(s) == trimEnd(trimStart(s))

\* metadata?.field?.trim() ?? ''
fieldText(metadata, f) ==
    IF metadata.isNull \/ metadata[f] = Undefined THEN <<>> ELSE trim(metadata[f])

\* lines 344-346
hasText(metadata) ==
    /\ ~metadata.isNull
    /\ \E f \in {"title", "artist", "album", "year"} :
          metadata[f] # Undefined /\ trim(metadata[f]) # <<>>

\* line 359: the test under which the image is embedded
embedsArt(albumArt) == ~albumArt.isNull /\ albumArt.byteLength > 0

\* String.prototype.toLowerCase on the letters that occur in the MIME types
toLowerCase(str) ==
    [ i \in 1..Len(str) |->
        CASE str[i] = "P" -> "p"
          [] str[i] = "N" -> "n"
          [] str[i] = "G" -> "g"
          [] str[i] = "I" -> "i"
          [] str[i] = "M" -> "m"
          [] str[i] = "A" -> "a"
          [] str[i] = "E" -> "e"
          [] OTHER -> str[i] ]

\* line 360
apicMime(albumArt) ==
    IF includes(toLowerCase(albumArt.mime), <<"p", "n", "g">>)
    THEN "image/png" ELSE "image/jpeg"

\* lines 352-369
v2Of(metadata, albumArt) ==
    [ TIT2 |-> fieldText(metadata, "title"), TPE1 |-> fieldText(metadata, "artist"),
      TALB |-> fieldText(metadata, "album"), TDRC |-> fieldText(metadata, "year"),
      APIC |-> IF embedsArt(albumArt)
               THEN << [format |-> apicMime(albumArt), type |-> 3,
                        byteLength |-> albumArt.byteLength] >>
               ELSE <<>> ]

\* lines 372-381
v1Of(metadata) ==
    [ title  |-> truncateForId3v1(fieldText(metadata, "title"), ID3V1_MAX_BYTES),
      artist |-> truncateForId3v1(fieldText(metadata, "artist"), ID3V1_MAX_BYTES),
      album  |-> truncateForId3v1(fieldText(metadata, "album"), ID3V1_MAX_BYTES),
      year   |-> truncateForId3v1(fieldText(metadata, "year"), ID3V1_YEAR_MAX_BYTES) ]

\* the characters a text is made of
Chars == { <<"a">>, <<"e2">>, <<"e3">>, <<"hi", "lo">> }
Tails == { <<>> } \cup Chars \cup { c \o d : c \in Chars, d \in Chars }
LongTexts == { Rep("a", n) \o t : n \in 0..MaxAscii, t \in Tails }
BlankTexts == { <<>>, <<"sp">>, Undefined }
ShortTexts == BlankTexts \cup { <<"sp", "a", "sp">>, Rep("a", 27) \o <<"hi", "lo">> }
YearTexts == BlankTexts \cup { Rep("a", 4), Rep("a", 5), <<"a", "hi", "lo">>, <<"e3", "e2">> }

NullMetadata == [isNull |-> TRUE]
Metadatas ==
    { NullMetadata }
    \cup [ isNull : {FALSE}, title : LongTexts, artist : {<<>>, <<"sp">>},
           album : {<<>>, Undefined}, year : {<<>>} ]
    \cup [ isNull : {FALSE}, title : BlankTexts, artist : ShortTexts,
           album : ShortTexts, year : YearTexts ]

\* the MIME type the caller declares for the image; format is what its bytes are
DeclaredMimes ==
    { <<"i", "m", "a", "g", "e", "/", "p", "n", "g">>,
      <<"I", "M", "A", "G", "E", "/", "P", "N", "G">>,
      <<"i", "m", "a", "g", "e", "/", "j", "p", "e", "g">>,
      <<>> }

NullArt == [isNull |-> TRUE]
AlbumArts ==
    { NullArt }
    \cup [ isNull : {FALSE}, mime : DeclaredMimes,
           byteLength : {0, 8}, format : {"png", "jpeg"} ]

Mp3Buffers == { [frames |-> 1], [frames |-> 2] }

TagIdle ==
    /\ tagArgs = [called |-> FALSE]
    /\ tpc = "idle"
    /\ tagOut = [returned |-> FALSE]

InitTag ==
    /\ tagArgs \in [ mp3Buffer : Mp3Buffers, metadata : Metadatas, albumArt : AlbumArts ]
    /\ tpc = "called"
    /\ tagOut = [returned |-> FALSE]

\* line 385: nothing to write, the buffer itself is returned
WriteMp3TagsSkip ==
    /\ tpc = "called"
    /\ ~hasText(tagArgs.metadata) /\ tagArgs.albumArt.isNull
    /\ tagOut' = [ returned |-> TRUE, audio |-> tagArgs.mp3Buffer,
                   id3v1 |-> <<>>, id3v2 |-> <<>> ]
    /\ tpc' = "done"
    /\ UNCHANGED tagArgs
    /\ UNCHANGED notTag

\* lines 387-390: MP3Tag.writeBuffer with id3v1 and id3v2 included
WriteMp3TagsWrite ==
    /\ tpc = "called"
    /\ ~(~hasText(tagArgs.metadata) /\ tagArgs.albumArt.isNull)
    /\ tagOut' = [ returned |-> TRUE, audio |-> tagArgs.mp3Buffer,
                   id3v1 |-> << v1Of(tagArgs.metadata) >>,
                   id3v2 |-> << v2Of(tagArgs.metadata, tagArgs.albumArt) >> ]
    /\ tpc' = "done"
    /\ UNCHANGED tagArgs
    /\ UNCHANGED notTag

NextTag ==
    \/ WriteMp3TagsSkip
    \/ WriteMp3TagsWrite

-----------------------------------------------------------------------------
(* detectBPM.  A buffer is described by blocks of HOP_LEN samples of constant *)
(* amplitude per channel, so that the energy of frame f is the root mean      *)
(* square of blocks f and f + 1; energies are kept in units of 1 / EnergyDen. *)

FRAME_LEN == 2048
HOP_LEN == 1024
MIN_BPM == 60
MAX_BPM == 200
MAX_SAMPLES == 2646000
EnergyDen == 16
MaxAmp == 3

\* stands for a sample or an energy that is NaN
NaNEnergy == -1000

\* the amplitude of block b of channel ch, in whole units; NaNEnergy for NaN
ampAt(buf, ch, b) ==
    CASE buf.kind = "silence"   -> 0
      [] buf.kind = "tone"      -> buf.amp
      [] buf.kind = "clicks"    -> IF b % buf.period = buf.phase THEN buf.amp ELSE 0
      [] buf.kind = "swell"     -> IF (b + buf.period - buf.phase) % buf.period < buf.amp
                                   THEN ((b + buf.period - buf.phase) % buf.period) + 1
                                   ELSE 0
      [] buf.kind = "antiphase" -> IF ch = 1 THEN buf.amp ELSE -buf.amp
      [] buf.kind = "nan"       -> IF b = buf.phase THEN NaNEnergy ELSE buf.amp

\* getMonoSamples: the length kept
monoLength(buf) == IF Min(buf.length, MAX_SAMPLES) <= 0 THEN 0 ELSE Min(buf.length, MAX_SAMPLES)

\* getMonoSamples: block b of the mono signal, times numCh (the division by
\* numCh is made in energyAt); NaN stays NaN
RECURSIVE channelSum(_, _, _)
channelSum(buf, ch, b) ==
    IF ch > buf.channels THEN 0
    ELSE IF ampAt(buf, ch, b) = NaNEnergy \/ channelSum(buf, ch + 1, b) = NaNEnergy
         THEN NaNEnergy
         ELSE ampAt(buf, ch, b) + channelSum(buf, ch + 1, b)

\* the largest r with r * r <= x
isqrt(x) == CHOOSE r \in 0..(2 * MaxAmp * EnergyDen + 1) : r * r <= x /\ (r + 1) * (r + 1) > x

\* energy[f] = Math.sqrt(sum / FRAME_LEN) over blocks f and f + 1
energyAt(buf, f) ==
    LET a == channelSum(buf, 1, f)
        b == channelSum(buf, 1, f + 1)
    IN  IF a = NaNEnergy \/ b = NaNEnergy THEN NaNEnergy
        ELSE isqrt(((a * a + b * b) * EnergyDen * EnergyDen)
                        \div (2 * buf.channels * buf.channels))

numFramesOf(len) == ((len - FRAME_LEN) \div HOP_LEN) + 1

\* onset[f]: the positive change from the previous frame
onsetAt(energy, f) ==
    IF f = 0 \/ energy[f] = NaNEnergy \/ energy[f - 1] = NaNEnergy THEN 0
    ELSE IF energy[f] - energy[f - 1] > 0 THEN energy[f] - energy[f - 1] ELSE 0

\* sorted[Math.floor((numFrames - 1) * 0.85)]
thresholdOf(onset, numFrames) ==
    LET threshIdx == ((numFrames - 1) * 85) \div 100
        values == { onset[f] : f \in 0..(numFrames - 1) }
    IN  CHOOSE v \in values :
            /\ Cardinality({ f \in 0..(numFrames - 1) : onset[f] < v }) <= threshIdx
            /\ Cardinality({ f \in 0..(numFrames - 1) : onset[f] <= v }) > threshIdx

\* the frames pushed to peakFrames
peakFramesOf(onset, numFrames, threshold) ==
    { f \in 2..(numFrames - 3) :
        /\ ~(onset[f] < threshold)
        /\ onset[f] >= onset[f - 1] /\ onset[f] >= onset[f - 2]
        /\ onset[f] >= onset[f + 1] /\ onset[f] >= onset[f + 2] }

\* the peak after peak a, which is not the last one
nextPeak(peaks, a, numFrames) ==
    CHOOSE b \in (a + 1)..numFrames : b \in peaks /\ \A c \in (a + 1)..(b - 1) : c \notin peaks

lastPeak(peaks, numFrames) ==
    CHOOSE b \in peaks : \A c \in (b + 1)..numFrames : c \notin peaks

\* dt = peakTimes[i] - peakTimes[i - 1] for peaks k frames apart is
\* k * HOP_LEN / sampleRate; it is kept when 0.2 <= dt <= 2
keptInterval(k, sampleRate) ==
    /\ sampleRate > 0
    /\ 5 * k * HOP_LEN >= sampleRate
    /\ k * HOP_LEN <= 2 * sampleRate

\* ms = dt * 1000 falls into the histogram
inHistogram(k, sampleRate) ==
    /\ ~(k * HOP_LEN * 1000 < 300 * sampleRate)
    /\ ~(k * HOP_LEN * 1000 > 1000 * sampleRate)

\* Math.floor((ms - minPeriodMs) / binMs)
binOf(k, sampleRate) == (k * HOP_LEN * 1000 - 300 * sampleRate) \div (20 * sampleRate)

numBins == 35

\* the first bin with the largest count, 0 when the histogram is empty
bestBinOf(hist) ==
    IF \A b \in 0..(numBins - 1) : hist[b] = 0 THEN 0
    ELSE CHOOSE b \in 0..(numBins - 1) :
            /\ \A c \in 0..(numBins - 1) : hist[c] <= hist[b]
            /\ \A c \in 0..(b - 1) : hist[c] < hist[b]

\* Math.round(60000 / periodMs) with periodMs = 300 + (bestBin + 0.5) * 20
rawBpmOf(bestBin) == (120000 + (310 + 20 * bestBin)) \div (2 * (310 + 20 * bestBin))

correctedBpmMutantOctaveUp(bpm) == bpm * 2

correctedBpmMutantNoCorrection(bpm) == Max(60, Min(200, bpm))

\* lines 125-135: the octave correction and the clamp; Math.round(bpm / 2)
correctedBpm(bpm) ==
    LET c == IF bpm >= 80 /\ bpm <= 200 THEN bpm
             ELSE IF bpm >= 40 /\ bpm < 80 THEN bpm * 2
             ELSE IF bpm > 200 /\ bpm <= 400 THEN (bpm + 1) \div 2
             ELSE bpm
    IN  Max(MIN_BPM, Min(MAX_BPM, c))

Null == [isNull |-> TRUE]
Bpm(n) == [isNull |-> FALSE, value |-> n]

MaxPeriod == 45

\* lengths around two frames, a few frames, some seconds, and over MAX_SAMPLES
ShortLengths == {0, 1, FRAME_LEN * 2 - 1, FRAME_LEN * 2, 9 * HOP_LEN}
LongLengths == {40 * HOP_LEN, 200 * HOP_LEN}
SampleRates == {4000, 22050, 44100}

Shape(kind, period, phase, amp) ==
    [kind |-> kind, period |-> period, phase |-> phase, amp |-> amp]

Shapes ==
    { Shape("silence", 1, 0, 0) }
    \cup { Shape("tone", 1, 0, a) : a \in 1..MaxAmp }
    \cup { Shape("clicks", p, ph, 1) : p \in 2..MaxPeriod, ph \in {0, 1} }
    \cup { Shape("swell", p, 0, MaxAmp) : p \in 2..MaxPeriod }
    \cup { Shape("nan", 1, ph, 1) : ph \in {0, 5} }

BpmBuffer(rate, channels, length, shape, readable) ==
    [ sampleRate |-> rate, channels |-> channels, length |-> length,
      kind |-> shape.kind, period |-> shape.period, phase |-> shape.phase,
      amp |-> shape.amp, readable |-> readable ]

BpmBuffers ==
    { BpmBuffer(r, c, n, sh, TRUE) :
        r \in SampleRates, c \in {1, 2}, n \in ShortLengths,
        sh \in { Shape("silence", 1, 0, 0), Shape("tone", 1, 0, 1), Shape("clicks", 2, 0, 1) } }
    \cup { BpmBuffer(r, 1, n, sh, TRUE) : r \in SampleRates, n \in LongLengths, sh \in Shapes }
    \cup { BpmBuffer(r, 2, 40 * HOP_LEN, sh, TRUE) :
             r \in SampleRates,
             sh \in { Shape("silence", 1, 0, 0), Shape("antiphase", 1, 0, 1),
                      Shape("clicks", 20, 0, 1) } }
    \cup { BpmBuffer(44100, 1, MAX_SAMPLES + HOP_LEN, sh, TRUE) :
             sh \in { Shape("silence", 1, 0, 0), Shape("clicks", 22, 0, 1) } }
    \cup { BpmBuffer(r, 1, n, Shape("silence", 1, 0, 0), FALSE) :
             r \in {44100}, n \in {0, 200 * HOP_LEN} }

NoBpmLocals ==
    [ numFrames |-> 0, energy |-> <<>>, onset |-> <<>>, threshold |-> 0, peakFrames |-> {},
      gaps |-> <<>>, intervals |-> {}, hist |-> <<>>, bestBin |-> 0 ]

BpmIdle ==
    /\ bpmBuffer = [length |-> 0]
    /\ bpc = "idle"
    /\ bl = NoBpmLocals
    /\ bpmOut = Null

InitBpm ==
    /\ bpmBuffer \in BpmBuffers
    /\ bpc = "called"
    /\ bl = NoBpmLocals
    /\ bpmOut = Null

\* lines 45-47: detectBPMInner throws on the buffer, the catch returns null
DetectBPMCatches ==
    /\ bpc = "called"
    /\ ~bpmBuffer.readable
    /\ bpmOut' = Null
    /\ bpc' = "done"
    /\ UNCHANGED <<bpmBuffer, bl>>
    /\ UNCHANGED notBpm

\* lines 51-53: fewer than two frames of samples
BpmTooShort ==
    /\ bpc = "called"
    /\ bpmBuffer.readable
    /\ monoLength(bpmBuffer) < FRAME_LEN * 2
    /\ bpmOut' = Null
    /\ bpc' = "done"
    /\ UNCHANGED <<bpmBuffer, bl>>
    /\ UNCHANGED notBpm

\* lines 55-66: the energy of every frame
BpmEnergy ==
    /\ bpc = "called"
    /\ bpmBuffer.readable
    /\ ~(monoLength(bpmBuffer) < FRAME_LEN * 2)
    /\ LET numFrames == numFramesOf(monoLength(bpmBuffer))
       IN  bl' = [bl EXCEPT !.numFrames = numFrames,
                            !.energy = [f \in 0..(numFrames - 1) |-> energyAt(bpmBuffer, f)]]
    /\ bpc' = "energy"
    /\ UNCHANGED <<bpmBuffer, bpmOut>>
    /\ UNCHANGED notBpm

\* lines 68-74
BpmOnset ==
    /\ bpc = "energy"
    /\ bl' = [bl EXCEPT !.onset = [f \in 0..(bl.numFrames - 1) |-> onsetAt(bl.energy, f)]]
    /\ bpc' = "onset"
    /\ UNCHANGED <<bpmBuffer, bpmOut>>
    /\ UNCHANGED notBpm

\* lines 76-79: the threshold
BpmThreshold ==
    /\ bpc = "onset"
    /\ bl' = [bl EXCEPT !.threshold = thresholdOf(bl.onset, bl.numFrames)]
    /\ bpc' = "threshold"
    /\ UNCHANGED <<bpmBuffer, bpmOut>>
    /\ UNCHANGED notBpm

\* lines 80-90: the peaks; fewer than four give null
BpmPeaks ==
    /\ bpc = "threshold"
    /\ LET peaks == peakFramesOf(bl.onset, bl.numFrames, bl.threshold)
       IN  /\ bl' = [bl EXCEPT !.peakFrames = peaks]
           /\ IF Cardinality(peaks) < 4
              THEN bpmOut' = Null /\ bpc' = "done"
              ELSE bpmOut' = bpmOut /\ bpc' = "peaks"
    /\ UNCHANGED bpmBuffer
    /\ UNCHANGED notBpm

\* lines 92-101: the intervals between consecutive peaks; fewer than two give null
BpmIntervals ==
    /\ bpc = "peaks"
    /\ LET last == lastPeak(bl.peakFrames, bl.numFrames)
           gaps == [a \in bl.peakFrames \ {last} |->
                       nextPeak(bl.peakFrames, a, bl.numFrames) - a]
           kept == { a \in DOMAIN gaps : keptInterval(gaps[a], bpmBuffer.sampleRate) }
       IN  /\ bl' = [bl EXCEPT !.gaps = gaps, !.intervals = kept]
           /\ IF Cardinality(kept) < 2
              THEN bpmOut' = Null /\ bpc' = "done"
              ELSE bpmOut' = bpmOut /\ bpc' = "intervals"
    /\ UNCHANGED bpmBuffer
    /\ UNCHANGED notBpm

\* lines 103-114: the histogram of the intervals of 300 to 1000 ms
BpmHistogram ==
    /\ bpc = "intervals"
    /\ bl' = [bl EXCEPT !.hist =
                 [b \in 0..(numBins - 1) |->
                     Cardinality({ a \in bl.intervals :
                         /\ inHistogram(bl.gaps[a], bpmBuffer.sampleRate)
                         /\ binOf(bl.gaps[a], bpmBuffer.sampleRate) = b })]]
    /\ bpc' = "hist"
    /\ UNCHANGED <<bpmBuffer, bpmOut>>
    /\ UNCHANGED notBpm

\* lines 116-136: the best bin and the tempo
BpmBest ==
    /\ bpc = "hist"
    /\ bl' = [bl EXCEPT !.bestBin = bestBinOf(bl.hist)]
    /\ bpmOut' = Bpm(correctedBpm(rawBpmOf(bestBinOf(bl.hist))))
    /\ bpc' = "done"
    /\ UNCHANGED bpmBuffer
    /\ UNCHANGED notBpm

NextBpm ==
    \/ DetectBPMCatches
    \/ BpmTooShort
    \/ BpmEnergy
    \/ BpmOnset
    \/ BpmThreshold
    \/ BpmPeaks
    \/ BpmIntervals
    \/ BpmHistogram
    \/ BpmBest

-----------------------------------------------------------------------------
(* main.ts: loadFile.  Each call disposes the graph held in currentGraph,     *)
(* awaits the decoding of its file and then makes the graph of that file the *)
(* current one.  A graph is followed by what dispose() changes: whether its  *)
(* analyser feeds ctx.destination and whether it is playing.                 *)

MaxLoads == 3
LoadIds == 1..MaxLoads

\* isM4A, line 495
FileKinds == {"audio", "m4a"}

NoLoad == [pc |-> "none"]

\* createAudioGraph / createAudioGraphFromMediaElement for the file of load i
createdGraph(kind, i) ==
    [kind |-> kind, file |-> i, disposed |-> FALSE, toOutput |-> TRUE, playing |-> FALSE]

\* graph.dispose()
disposedGraph(g) == [g EXCEPT !.disposed = TRUE, !.toOutput = FALSE, !.playing = FALSE]

LoadIdle ==
    /\ loads = [i \in LoadIds |-> NoLoad]
    /\ graphs = <<>>
    /\ currentGraph = 0

notLoad == <<chainVars, playVars, exports, uiVars, renderVars, encodeVars, tagVars, bpmVars>>

\* lines 485-488: if (currentGraph) { currentGraph.dispose(); currentGraph = null; }
disposeCurrent(all, current) ==
    IF current # 0 THEN [all EXCEPT ![current] = disposedGraph(@)] ELSE all

\* lines 482-499 and 528-532: loadFile(file) up to its first await
LoadFile(i) ==
    /\ loads[i].pc = "none"
    /\ \A j \in 1..(i - 1) : loads[j].pc # "none"
    /\ graphs' = disposeCurrent(graphs, currentGraph)
    /\ currentGraph' = 0
    /\ \E kind \in FileKinds :
          loads' = [loads EXCEPT ![i] =
                       [pc |-> IF kind = "m4a" THEN "media" ELSE "decoding", kind |-> kind]]
    /\ UNCHANGED notLoad

\* lines 533 and 512-513, then applyDecodedBuffer, lines 447-448
LoadDecoded(i) ==
    /\ loads[i].pc \in {"decoding", "alac"}
    /\ graphs' = Append(graphs, createdGraph("buffer", i))
    /\ currentGraph' = Len(graphs) + 1
    /\ loads' = [loads EXCEPT ![i].pc = "done"]
    /\ UNCHANGED notLoad

\* lines 534-537 and 514-526: the decoding is rejected
LoadDecodeFails(i) ==
    /\ loads[i].pc \in {"decoding", "alac"}
    /\ loads' = [loads EXCEPT ![i].pc = "failed"]
    /\ UNCHANGED <<graphs, currentGraph>>
    /\ UNCHANGED notLoad

\* loadFileViaMediaElement, lines 555-568: the element can play
LoadMediaLoaded(i) ==
    /\ loads[i].pc = "media"
    /\ loads' = [loads EXCEPT ![i].pc = "metadata"]
    /\ UNCHANGED <<graphs, currentGraph>>
    /\ UNCHANGED notLoad

\* lines 570-578: extractMetadata has settled
LoadMediaReady(i) ==
    /\ loads[i].pc = "metadata"
    /\ graphs' = Append(graphs, createdGraph("media", i))
    /\ currentGraph' = Len(graphs) + 1
    /\ loads' = [loads EXCEPT ![i].pc = "done"]
    /\ UNCHANGED notLoad

\* lines 501-526: the element fails to load; an unsupported codec is given to
\* the ALAC decoder
LoadMediaFails(i) ==
    /\ loads[i].pc \in {"media", "metadata"}
    /\ \E isUnsupportedCodec \in BOOLEAN :
          loads' = [loads EXCEPT ![i].pc = IF isUnsupportedCodec THEN "alac" ELSE "failed"]
    /\ UNCHANGED <<graphs, currentGraph>>
    /\ UNCHANGED notLoad

\* controls.ts: the play button; initControls aborts the listeners of the
\* graph before, so the buttons reach the graph of the last initControls
TransportPlay ==
    /\ currentGraph # 0
    /\ ~graphs[currentGraph].playing
    /\ graphs' = [graphs EXCEPT ![currentGraph].playing = TRUE]
    /\ UNCHANGED <<loads, currentGraph>>
    /\ UNCHANGED notLoad

NextLoad ==
    \/ \E i \in LoadIds : LoadFile(i)
    \/ \E i \in LoadIds : LoadDecoded(i)
    \/ \E i \in LoadIds : LoadDecodeFails(i)
    \/ \E i \in LoadIds : LoadMediaLoaded(i)
    \/ \E i \in LoadIds : LoadMediaReady(i)
    \/ \E i \in LoadIds : LoadMediaFails(i)
    \/ TransportPlay

-----------------------------------------------------------------------------
(* Specifications *)

vars == <<chainVars, playVars, exports, uiVars, renderVars, encodeVars, tagVars, bpmVars,
          loadVars>>

\* the live chain and the offline graphs built from it
Init == InitChain /\ PlayIdle /\ LoadIdle /\ ExportsIdle /\ UiIdle /\ RenderIdle /\ EncodeIdle /\ TagIdle /\ BpmIdle
Next == NextChain
Spec == Init /\ [][Next]_vars

\* one renderOffline call
InitRenderOffline == InitChain /\ PlayIdle /\ LoadIdle /\ ExportsIdle /\ UiIdle /\ InitRender /\ EncodeIdle /\ TagIdle /\ BpmIdle
SpecRender == InitRenderOffline /\ [][NextRender]_vars

\* one encodeWAV call and the sample conversion of encodeMp3 on one buffer
InitEncoders == InitChain /\ PlayIdle /\ LoadIdle /\ ExportsIdle /\ UiIdle /\ RenderIdle /\ InitEncode /\ TagIdle /\ BpmIdle
SpecEncode == InitEncoders /\ [][NextEncode]_vars

\* one encodeMp3 call
InitEncodeMp3 == InitChain /\ PlayIdle /\ LoadIdle /\ ExportsIdle /\ UiIdle /\ RenderIdle /\ InitMp3 /\ TagIdle /\ BpmIdle
SpecMp3 == InitEncodeMp3 /\ [][NextMp3]_vars

\* one writeMp3Tags call
InitWriteMp3Tags == InitChain /\ PlayIdle /\ LoadIdle /\ ExportsIdle /\ UiIdle /\ RenderIdle /\ EncodeIdle /\ InitTag /\ BpmIdle
SpecTag == InitWriteMp3Tags /\ [][NextTag]_vars

\* one detectBPM call
InitDetectBPM == InitChain /\ PlayIdle /\ LoadIdle /\ ExportsIdle /\ UiIdle /\ RenderIdle /\ EncodeIdle /\ TagIdle /\ InitBpm
SpecBpm == InitDetectBPM /\ [][NextBpm]_vars

\* the download menu
InitControls == InitChain /\ PlayIdle /\ LoadIdle /\ ExportsIdle /\ InitUi /\ RenderIdle /\ EncodeIdle /\ TagIdle /\ BpmIdle
SpecControls == InitControls /\ [][NextUi]_vars

\* the filter knobs over their whole range
LowpassArgs == -2..102

NextFilters ==
    \/ \E a \in LowpassArgs : setLowpass(a) /\ Interleaved
    \/ \E a \in AmountArgs : setHighpass(a) /\ Interleaved

InitFilters == InitChain /\ PlayIdle /\ LoadIdle /\ ExportsIdle /\ UiIdle /\ RenderIdle /\ EncodeIdle /\ TagIdle /\ BpmIdle
SpecFilters == InitFilters /\ [][NextFilters]_vars

\* two exports in flight
InitExports == InitChain /\ PlayIdle /\ LoadIdle /\ ExportsIdle /\ UiIdle /\ RenderIdle /\ EncodeIdle /\ TagIdle /\ BpmIdle
SpecExports == InitExports /\ [][NextExports]_vars

\* playback of the live chain, and the setters that reach the source node
NextPlayback ==
    \/ PlayCall
    \/ PlayResumes
    \/ Pause
    \/ Stop
    \/ Seek
    \/ OnEnded
    \/ Tick
    \/ SourceEnded
    \/ Dispose
    \/ \E v \in PlaybackSpeedArgs : graphKind = "buffer" /\ setSpeed(v) /\ Interleaved
    \/ MediaPlayResumes
    \/ MediaPause
    \/ MediaStop
    \/ MediaSeek
    \/ MediaTick
    \/ MediaDispose

\* main.ts: the graph of a decoded buffer, or of a media element
InitPlayback ==
    /\ graphKind \in {"buffer", "media"}
    /\ state = InitState
    /\ params = createAudioGraphParams
    /\ conn = IF graphKind = "buffer" THEN createAudioGraphConn
              ELSE createAudioGraphFromMediaElementConn
    /\ audio = IF graphKind = "buffer" THEN NoAudio ELSE InitAudio
    /\ offline = NoGraph
    /\ setterCalls = 0
    /\ source = NoSource
    /\ playing = FALSE
    /\ startTime = Zero
    /\ pauseOffset = Zero
    /\ endedCallback = FALSE
    /\ currentTime = 0
    /\ pendingPlays = <<>>
    /\ playCalls = 0
    /\ endedCalls = 0
    /\ disposeCalls = 0
    /\ halted = FALSE
    /\ ExportsIdle /\ UiIdle /\ RenderIdle /\ EncodeIdle /\ TagIdle /\ BpmIdle /\ LoadIdle
SpecPlayback == InitPlayback /\ [][NextPlayback]_vars

\* the files loaded one after the other or while another is decoding
InitLoading == InitChain /\ PlayIdle /\ LoadIdle /\ ExportsIdle /\ UiIdle /\ RenderIdle /\ EncodeIdle /\ TagIdle /\ BpmIdle
SpecLoad == InitLoading /\ [][NextLoad]_vars

-----------------------------------------------------------------------------
(* Reverb mix and routing: claims C1, C2, C3, C6 *)

\* gain = (amount / 100) * (percent / 100), both sides in units of 1/GainDen
IsShare(gain, amount, percent) == gain * 100 * 100 = amount * percent * GainDen

\* C1: whenever the comb ('delay') reverb is the active algorithm, in the live
\* chain after any setReverb / setReverbType calls and in every offline graph
\* built from a state, the dry gain is exactly 1 and the wet gain is
\* (stored reverb amount / 100) * 0.45.
C1_CombDryUnityWetScaled ==
    /\ state.reverbType = "delay" =>
          /\ params.dryGain = GainDen
          /\ IsShare(params.wetGain, state.reverb, 45)
    /\ (offline.built /\ offline.reverbType = "delay") =>
          /\ offline.params.dryGain = GainDen
          /\ IsShare(offline.params.wetGain, offline.reverb, 45)

\* the comb reverb is active again after the convolution reverb was, with a
\* non-zero amount, and an offline graph was built for the comb reverb
C1_Witness ==
    /\ state.reverbType = "delay" /\ state.reverb = 100
    /\ params.wetGain = 4500
    /\ offline.built /\ offline.reverbType = "delay" /\ offline.reverb = 30

\* C2: whenever the convolution ('original') reverb is the active algorithm,
\* live or offline, the wet gain is (stored reverb amount / 100) * 0.5 and
\* dry gain + wet gain is 1.
C2_ConvolutionComplementary ==
    /\ state.reverbType = "original" =>
          /\ IsShare(params.wetGain, state.reverb, 50)
          /\ params.dryGain + params.wetGain = GainDen
    /\ (offline.built /\ offline.reverbType = "original") =>
          /\ IsShare(offline.params.wetGain, offline.reverb, 50)
          /\ offline.params.dryGain + offline.params.wetGain = GainDen

C2_Witness ==
    /\ state.reverbType = "original" /\ state.reverb = 30
    /\ params.wetGain = 1500 /\ params.dryGain = 8500
    /\ offline.built /\ offline.reverbType = "original" /\ offline.reverb = 100

\* the connections of a reverb unit other than those leaving its bus
ForwardEdges(unit) == {e \in unit.edges : e[1] # unit.bus}

\* C3: after construction and after any setReverbType calls exactly one reverb
\* bus is connected to the wet mixer, the bus of the stored reverbType (the
\* other one is disconnected from it), and both reverb units still exist and
\* still receive the high-pass output.
C3_OneActiveBus ==
    /\ {e \in conn : e[2] = "wetGain"} = {<<reverbOf(state.reverbType).bus, "wetGain">>}
    /\ <<"highpass", createDelayReverb.send>> \in conn
    /\ <<"highpass", createOriginalReverb.send>> \in conn
    /\ ForwardEdges(createDelayReverb) \subseteq conn
    /\ ForwardEdges(createOriginalReverb) \subseteq conn

\* the chain was switched to the convolution reverb
C3_Witness ==
    /\ state.reverbType = "original"
    /\ <<createOriginalReverb.bus, "wetGain">> \in conn
    /\ <<createDelayReverb.bus, "wetGain">> \notin conn

\* the stages both graphs have: the filters, the mixers and the active reverb
\* unit (the bare source and the output tap are left out)
Stages(type) ==
    {"bass", "treble", "lowpass", "highpass", "dryGain", "wetGain", "gain"}
        \cup reverbOf(type).nodes

Between(edges, nodes) == {e \in edges : e[1] \in nodes /\ e[2] \in nodes}

\* C6: the graph buildEffectGraph builds for the state of the live chain has
\* the same connections between its stages, the internal connections of the
\* active reverb unit included, and the same parameter values as the live
\* chain in that state.
C6_OfflineReproducesLive ==
    (offline.built /\ setterCalls = 0) =>
        /\ Between(offline.conn, Stages(state.reverbType))
              = Between(conn, Stages(state.reverbType))
        /\ offline.params = params

-----------------------------------------------------------------------------
(* Offline render length and chunking: claims C4, C5 *)

\* speed * 2^(detune / 1200) as the exact fraction num / den
rateNum(j) == IF j.detune >= 0 THEN j.speed * (2 ^ (j.detune \div 1200)) ELSE j.speed
rateDen(j) == IF j.detune >= 0 THEN 100 ELSE 100 * (2 ^ ((-j.detune) \div 1200))

Nightcore10s ==
    [length |-> 441000, sampleRate |-> 44100, channels |-> 2, speed |-> 125, detune |-> 0]

\* C4: for every source buffer and every state with speed > 0 the buffer
\* renderOffline returns has the duration sourceDuration / (speed *
\* 2^(detune/1200)), longer by at most one sample per chunk (each chunk's
\* rounding up to a whole sample); speed 1.25, detune 0 on 10 s of 44100 Hz
\* stereo gives exactly 8.0 s, 352800 frames.
C4_RenderedDuration ==
    (rpc = "done" /\ job.speed > 0) =>
        /\ job.length * rateDen(job) <= rendered.length * rateNum(job)
        /\ rendered.length * rateNum(job)
              <= job.length * rateDen(job) + Len(renderedChunks) * rateNum(job)
        /\ rendered.sampleRate = job.sampleRate
        /\ job = Nightcore10s => rendered.length = 8 * 44100

\* a render of several chunks whose length is not a whole number of samples,
\* at speed 1.25 an octave down
C4_Witness ==
    /\ rpc = "done" /\ job.speed = 125 /\ job.detune = -1200
    /\ Len(renderedChunks) >= 2
    /\ rendered.length * rateNum(job) > job.length * rateDen(job)

\* a + b = c, exactly
flIsSum(a, b, c) ==
    LET e == Min(Min(a.e, b.e), c.e)
    IN  a.m * (2 ^ (a.e - e)) + b.m * (2 ^ (b.e - e)) = c.m * (2 ^ (c.e - e))

\* the frames of one render of the whole output duration: line 148 for a
\* single chunk from 0 to duration
singleRenderFrames(duration, sampleRate) ==
    flCeil(flMul(duration, flFromInt(sampleRate)))

\* C5: chunking is lossless: the chunks are 60 s long except a shorter last
\* one, their source windows follow each other without gap or overlap, and
\* the per-chunk frame counts add up to the frame count of one non-chunked
\* render of the whole output duration.
C5_ChunkingLossless ==
    rpc = "done" =>
        LET n == Len(renderedChunks) IN
        /\ \A i \in 1..(n - 1) :
              /\ renderedChunks[i].chunkDuration = flFromInt(RENDER_CHUNK_SECONDS)
              /\ flIsSum(renderedChunks[i].sourceOffset, renderedChunks[i].sourceDuration,
                         renderedChunks[i + 1].sourceOffset)
        /\ ~flLess(flFromInt(RENDER_CHUNK_SECONDS), renderedChunks[n].chunkDuration)
        /\ renderedChunks[1].sourceOffset = flZero
        /\ rendered.length = singleRenderFrames(rl.duration, job.sampleRate)

\* the first two parts of C5 alone
ChunkWindowsContiguous ==
    rpc = "done" =>
        LET n == Len(renderedChunks) IN
        /\ \A i \in 1..(n - 1) :
              /\ renderedChunks[i].chunkDuration = flFromInt(RENDER_CHUNK_SECONDS)
              /\ flIsSum(renderedChunks[i].sourceOffset, renderedChunks[i].sourceDuration,
                         renderedChunks[i + 1].sourceOffset)
        /\ ~flLess(flFromInt(RENDER_CHUNK_SECONDS), renderedChunks[n].chunkDuration)
        /\ renderedChunks[1].sourceOffset = flZero

-----------------------------------------------------------------------------
(* Claims: the WAV encoder *)

\* a WAV reader's view of the header: little-endian fields at byte offsets
readU16(h, at) == h[at + 1] + 256 * h[at + 2]
readU32(h, at) == h[at + 1] + 256 * h[at + 2] + 65536 * h[at + 3] + 16777216 * h[at + 4]

\* C7: for a buffer of C channels, N frames and sample rate R, encodeWAV
\* returns exactly 44 + 2*C*N bytes, all data bytes written, and the header
\* carries C channels, rate R, 16 bits per sample, block align 2*C, data size
\* 2*C*N and RIFF size 36 + 2*C*N; a reader of the header gets back C, R and N.
C7_WavHeader ==
    wpc = "done" =>
        LET C == encBuffer.channels
            N == encBuffer.length
            R == encBuffer.sampleRate
            h == wav.header
        IN  /\ wav.byteLength = 44 + 2 * C * N
            /\ wav.offset = wav.byteLength
            /\ Len(h) = 44
            /\ readU16(h, 22) = C
            /\ readU32(h, 24) = R
            /\ readU16(h, 34) = 16
            /\ readU16(h, 32) = 2 * C
            /\ readU32(h, 40) = 2 * C * N
            /\ readU32(h, 4) = 36 + 2 * C * N
            /\ readU32(h, 40) \div readU16(h, 32) = N

C7_Witness ==
    /\ wpc = "done"
    /\ encBuffer.channels = 2
    /\ encBuffer.length = 352800
    /\ wav.byteLength = 1411244
    /\ wavProgress # <<>>

\* the conversion as stated: clamp to [-1, 1]; negative x gives
\* max(-32768, floor(x * 32768)), other x gives min(32767, floor(x * 32767))
statedInt16(v) ==
    LET c == IF v < -SampleDen THEN -SampleDen ELSE IF v > SampleDen THEN SampleDen ELSE v
        n == (c * 32768) \div SampleDen
        p == (c * 32767) \div SampleDen
    IN  IF c < 0 THEN (IF n < -32768 THEN -32768 ELSE n)
                 ELSE (IF p > 32767 THEN 32767 ELSE p)

\* the frame and the channel of the k-th sample written to the WAV data
frameOf(k) == (k - 1) \div encBuffer.channels
channelOf(k) == ((k - 1) % encBuffer.channels) + 1

\* C8: every sample written by encodeWAV and every sample produced by
\* floatToInt16 is a signed 16-bit integer and, for a sample x, is the stated
\* conversion of x; -1 gives -32768, 0 gives 0 and 1 gives 32767; the two
\* encoders give the same integer for the same input sample.
C8_SampleConversion ==
    /\ \A k \in 1..Len(wav.head) :
          LET x == sampleAt(encBuffer, channelOf(k), frameOf(k))
          IN  /\ wav.head[k] \in -32768..32767
              /\ ~x.nan => wav.head[k] = statedInt16(x.v)
              /\ x = Num(-SampleDen) => wav.head[k] = -32768
              /\ x = Num(0) => wav.head[k] = 0
              /\ x = Num(SampleDen) => wav.head[k] = 32767
              /\ (mp3pcm.converted /\ channelOf(k) = 1) =>
                     mp3pcm.left[frameOf(k) + 1] = wav.head[k]
              /\ (mp3pcm.converted /\ channelOf(k) = 2) =>
                     mp3pcm.right[frameOf(k) + 1] = wav.head[k]
    /\ mp3pcm.converted =>
          \A j \in 1..Len(mp3pcm.left) :
              LET x == sampleAt(encBuffer, 1, j - 1)
              IN  /\ mp3pcm.left[j] \in -32768..32767
                  /\ ~x.nan => mp3pcm.left[j] = statedInt16(x.v)

C8_Witness ==
    /\ wpc = "done"
    /\ mp3pcm.converted
    /\ encBuffer.channels = 2
    /\ encBuffer.data[1] = <<Num(-SampleDen), Num(SampleDen \div 2)>>
    /\ encBuffer.data[2] = <<NaN, Num(SampleDen \div 2)>>
    /\ wav.head[1] = -32768
    /\ wav.head[2] = 0
    /\ wav.head[3] = statedInt16(SampleDen \div 2)
    /\ mp3pcm.left[1] = -32768
    /\ mp3pcm.right[1] = 0

-----------------------------------------------------------------------------
(* Claims: the tag writer *)

IsPrefix(p, s) == Len(p) <= Len(s) /\ p = SubSeq(s, 1, Len(p))

\* the text ends in a whole character: its last code unit is not the first
\* half of a surrogate pair
endsWhole(s) == s = <<>> \/ s[Len(s)] # "hi"

\* what truncateForId3v1 is given for a field, and what it returned
given(f) == fieldText(tagArgs.metadata, f)
truncated(f) == tagOut.id3v1[1][f]
limitOf(f) == IF f = "year" THEN 4 ELSE 30

tagsWritten == tpc = "done" /\ tagOut.id3v1 # <<>>

\* C9: each legacy-tag field is a prefix of the text it was cut from, of at
\* most 30 encoded bytes (4 for the year); 40 ASCII characters are cut to
\* exactly 30 bytes; the cut never leaves a partial character at the end.
C9_TruncateForId3v1 ==
    tagsWritten =>
        \A f \in {"title", "artist", "album", "year"} :
            /\ IsPrefix(truncated(f), given(f))
            /\ utf8Length(truncated(f)) <= limitOf(f)
            /\ (f # "year" /\ given(f) = Rep("a", 40)) => utf8Length(truncated(f)) = 30
            /\ endsWhole(truncated(f))

\* the part of C9 the code keeps: a prefix within the byte limit, and the
\* 40-character ASCII case
TruncatedPrefixWithinLimit ==
    tagsWritten =>
        \A f \in {"title", "artist", "album", "year"} :
            /\ IsPrefix(truncated(f), given(f))
            /\ utf8Length(truncated(f)) <= limitOf(f)
            /\ (f # "year" /\ given(f) = Rep("a", 40)) => utf8Length(truncated(f)) = 30

\* a split happens only where the cut falls inside a surrogate pair
SplitOnlyInsidePair ==
    tagsWritten =>
        \A f \in {"title", "artist", "album", "year"} :
            ~endsWhole(truncated(f)) =>
                /\ Len(given(f)) > Len(truncated(f))
                /\ given(f)[Len(truncated(f)) + 1] = "lo"
                /\ utf8Length(truncated(f)) + 1 > limitOf(f)

\* artwork is present when albumArt is given and holds image bytes
artworkPresent == ~tagArgs.albumArt.isNull /\ tagArgs.albumArt.byteLength > 0

noTextPresent ==
    \/ tagArgs.metadata.isNull
    \/ \A f \in {"title", "artist", "album", "year"} :
          \/ tagArgs.metadata[f] = Undefined
          \/ \A i \in 1..Len(tagArgs.metadata[f]) : tagArgs.metadata[f][i] = "sp"

\* C10: writeMp3Tags returns the given bytes without tags exactly when no
\* textual metadata and no artwork are present; otherwise both tag sets are
\* written.
C10_SkipWithoutTextAndArtwork ==
    tpc = "done" =>
        /\ tagOut.audio = tagArgs.mp3Buffer
        /\ (noTextPresent /\ ~artworkPresent) =>
               (tagOut.id3v1 = <<>> /\ tagOut.id3v2 = <<>>)
        /\ ~(noTextPresent /\ ~artworkPresent) =>
               (tagOut.id3v1 # <<>> /\ tagOut.id3v2 # <<>>)

\* the code's own rule: the skip is decided on albumArt being given at all
SkipDecidedOnAlbumArtGiven ==
    tpc = "done" =>
        /\ (noTextPresent /\ tagArgs.albumArt.isNull) =>
               (tagOut.id3v1 = <<>> /\ tagOut.id3v2 = <<>>)
        /\ ~(noTextPresent /\ tagArgs.albumArt.isNull) =>
               (tagOut.id3v1 # <<>> /\ tagOut.id3v2 # <<>>)

-----------------------------------------------------------------------------
(* Claims: failures *)

\* C11: when the allocation or the rendering of a chunk fails for lack of
\* memory, renderOffline rejects with the out-of-memory error that carries the
\* hint, never with the error the runtime raised.
C11_ExhaustionGivesOutOfMemoryError ==
    (rpc = "failed" /\ thrown.cause.exhaustion) => thrown.error = RenderFailedError

\* what the catch block does: the out-of-memory error replaces exactly the
\* errors whose message holds one of the three words
OutOfMemoryErrorByMessage ==
    rpc = "failed" =>
        /\ thrown.cause \in {OutOfMemory} => thrown.error = RenderFailedError
        /\ thrown.cause \in {ArrayBufferAllocationFailed, AllocationSizeOverflow, InvalidState}
               => thrown.error = thrown.cause
        /\ rendered = NoBuffer

\* C12: encodeMp3 rejects with the 'requires lamejs' error when the encoder
\* is missing, before any frame is encoded, and with the 'encoding failed,
\* file may be too long' error when the encoder throws at construction, on a
\* frame or on flush; the two are never exchanged, and a failed call returns
\* no bytes.
C12_Mp3Errors ==
    /\ mpc = "failed" =>
          /\ mp3.out = <<>>
          /\ ~mp3.lamejs => (mp3.error = <<EncoderUnavailableError>> /\ mp3.calls = 0
                               /\ mp3.flushes = 0)
          /\ mp3.lamejs => mp3.error = <<EncodingFailedError>>
    /\ mpc \in {"loop", "yield", "done"} => (mp3.lamejs /\ mp3.error = <<>>)
    /\ ~mp3.lamejs => (mp3.calls = 0 /\ mpc \in {"called", "converted", "failed"})
    /\ EncoderUnavailableError # EncodingFailedError

C12_Witness ==
    /\ mpc = "failed"
    /\ mp3.lamejs
    /\ mp3.error = <<EncodingFailedError>>
    /\ mp3.calls > MP3_YIELD_EVERY_CHUNKS
    /\ mp3.bytes > 0
    /\ mp3.out = <<>>

C12_WitnessUnavailable ==
    mpc = "failed" /\ ~mp3.lamejs /\ mp3.error = <<EncoderUnavailableError>>

-----------------------------------------------------------------------------
(* Claims: the tempo estimator *)

\* C13: detectBPM always returns, and what it returns is null or a whole
\* number from 60 to 200.
C13_BpmNullOrInRange ==
    /\ bpc \in {"idle", "called", "energy", "onset", "threshold", "peaks", "intervals", "hist", "done"}
    /\ bpc = "done" => (bpmOut.isNull \/ bpmOut.value \in MIN_BPM..MAX_BPM)

C13_Witness ==
    /\ bpc = "done"
    /\ ~bpmOut.isNull
    /\ bpmOut.value = 146
    /\ bpmBuffer.kind = "swell"
    /\ bpmBuffer.sampleRate = 44100
    /\ bl.hist[bl.bestBin] > 0

C13_WitnessCaught ==
    bpc = "done" /\ ~bpmBuffer.readable /\ bpmOut.isNull

\* C14: detectBPM returns null for a buffer of zeros, whatever its length and
\* sample rate, and for any buffer of fewer than 4096 samples.
C14_SilenceAndShortGiveNull ==
    (bpc = "done" /\ bpmBuffer.readable) =>
        /\ bpmBuffer.kind = "silence" => bpmOut.isNull
        /\ bpmBuffer.length < 2 * FRAME_LEN => bpmOut.isNull

\* the part of C14 that holds: fewer than 4096 samples give null, and silence
\* gives null at the sample rates where one hop is shorter than 0.2 s
ShortGivesNull ==
    (bpc = "done" /\ bpmBuffer.readable) =>
        /\ bpmBuffer.length < 2 * FRAME_LEN => bpmOut.isNull
        /\ (bpmBuffer.kind = "silence" /\ 5 * HOP_LEN < bpmBuffer.sampleRate) => bpmOut.isNull

-----------------------------------------------------------------------------
(* Claims: the stored state *)

C16_SpeedVolumeNonNegative ==
    /\ state.speed >= 0
    /\ state.volume >= 0

\* what setSpeed and setVolume do: the argument is stored as given, and
\* getState returns it
SpeedVolumeStoredAsGiven ==
    [][ /\ \A v \in SpeedArgs : (setSpeed(v) /\ Interleaved) => getState'.speed = v
        /\ \A v \in VolumeArgs : (setVolume(v) /\ Interleaved) =>
               (getState'.volume = v /\ params'.gain = v) ]_vars

-----------------------------------------------------------------------------
(* Claims: releasing the chain *)

\* the nodes from which a path of connections leads into the given nodes
RECURSIVE feeding(_, _)
feeding(edges, nodes) ==
    LET more == nodes \cup {e[1] : e \in {x \in edges : x[2] \in nodes}}
    IN  IF more = nodes THEN nodes ELSE feeding(edges, more)

connectedToOutput(edges) == feeding(edges, {"destination"}) \ {"destination"}

\* C17: dispose() releases every stage and is idempotent: when a dispose()
\* call returns, no node of the chain is connected to the output and
\* isPlaying() is false, and a further dispose() raises nothing and leaves
\* the state as it is; for the buffer graph and the media-element graph.
C17_DisposeReleasesAndIsIdempotent ==
    [][disposeCalls' # disposeCalls =>
          /\ connectedToOutput(conn') = {}
          /\ ~isPlaying'
          /\ graphKind = "buffer" => dispose(graphNow') = graphNow'
          /\ graphKind = "media" => mediaDispose(mediaNow') = mediaNow']_vars

\* dispose() called twice on a buffer graph that had started a source
C17_Witness ==
    /\ graphKind = "buffer"
    /\ disposeCalls = 2
    /\ startTime # Zero
    /\ source = NoSource
    /\ ~playing
    /\ connectedToOutput(conn) = {}

\* dispose() called twice on a media-element graph that had played
C17_WitnessMedia ==
    /\ graphKind = "media"
    /\ disposeCalls = 2
    /\ playCalls = 1 /\ pendingPlays = <<>>
    /\ audio.paused /\ audio.src = "" /\ audio.urlRevoked
    /\ connectedToOutput(conn) = {}

-----------------------------------------------------------------------------
(* Claims: exports in flight *)

\* renderOffline run to its end on a buffer and a state, nothing else running:
\* the chunks with their graphs, and the buffer returned
renderAlone(buffer, s) ==
    LET j == jobOf(buffer, s)
        starts == chunkStartsOf(durationOf(j))
        chunks == [i \in 1..Len(starts) |->
                     [ chunk |-> chunkOf(starts[i], durationOf(j), effectiveRateOf(j),
                                         buffer.sampleRate),
                       graph |-> buildEffectGraph(s) ]]
    IN  [ chunks |-> chunks,
          rendered |-> concatenateAudioBuffers(chunksOnly(chunks), buffer.channels,
                                               buffer.sampleRate) ]

\* the states the live chain takes under the setter calls of NextExports, and
\* for each what renderOffline returns alone
ExportStates ==
    { [InitState EXCEPT !.speed = v, !.reverb = a, !.reverbType = t] :
        v \in ExportSpeedArgs \cup {InitState.speed},
        a \in {clamp100(r) : r \in ExportReverbArgs} \cup {InitState.reverb},
        t \in ReverbTypes }

AloneByState == { <<s, renderAlone(ExportBuffer, s)>> : s \in ExportStates }

aloneOf(s) == (CHOOSE p \in AloneByState : p[1] = s)[2]

\* C18: exports in flight share no mutable state: however two renderOffline
\* invocations interleave at their awaits, and whatever setters are called
\* on the live chain meanwhile, every chunk of an invocation is rendered with
\* the state getState() returned when the export began, and the invocation
\* returns what it returns when it runs alone.
C18_ExportsUseTheirSnapshot ==
    \A e \in ExportIds :
        exports[e].pc # "none" =>
            LET x == exports[e]
                alone == aloneOf(x.state)
            IN  IF x.pc = "done"
                THEN /\ x.renderedChunks = alone.chunks
                     /\ x.rendered = alone.rendered
                ELSE /\ Len(x.renderedChunks) <= Len(alone.chunks)
                     /\ x.renderedChunks = SubSeq(alone.chunks, 1, Len(x.renderedChunks))
                     /\ x.pc = "rendering" => x.chunk = alone.chunks[x.i]

\* both exports suspended with different snapshots, the live chain changed
\* since the later one began
C18_Witness ==
    /\ exports[1].pc = "yield" /\ exports[1].i = 1
    /\ exports[2].pc = "rendering"
    /\ exports[1].state # exports[2].state
    /\ state # exports[1].state
    /\ state # exports[2].state

\* both exports returned, of two and of three chunks
C18_WitnessDone ==
    /\ exports[1].pc = "done" /\ Len(exports[1].renderedChunks) = 2
    /\ exports[2].pc = "done" /\ Len(exports[2].renderedChunks) = 3
    /\ state.reverbType # exports[2].state.reverbType

-----------------------------------------------------------------------------
(* Claims: the low-pass mapping *)

\* C19: over the amounts 0..100 the low-pass cutoff never rises with the
\* amount, is 20000 Hz at 0 and about 20000 * 2^-6.64 = 200.5 Hz (within 1 %)
\* at 100, and the low-pass frequency of the live chain is always the cutoff
\* of the stored lowpass amount.
C19_LowpassCutoffMapping ==
    /\ params.lowpassFreq = lowpassCutoff(state.lowpass)
    /\ \A a \in 0..state.lowpass : lowpassCutoff(a) >= params.lowpassFreq
    /\ state.lowpass = 0 => params.lowpassFreq = 20000
    /\ state.lowpass = 100 => Abs(params.lowpassFreq * 100 - 20053) <= 200

\* setLowpass has stored the top of the range
C19_Witness ==
    /\ state.lowpass = 100
    /\ params.lowpassFreq < lowpassCutoff(99)
    /\ state.highpass = 50

\* setLowpass has stored an amount inside the range
C19_WitnessInside ==
    /\ state.lowpass = 37
    /\ params.lowpassFreq < 20000

-----------------------------------------------------------------------------
(* Claims: the download *)

\* the downloads triggered for a blob
downloadsOf(blob) == {i \in 1..Len(downloads) : downloads[i].blob = blob}

\* C20: whenever a WAV or MP3 export started on a graph with a decoded buffer
\* has rendered and encoded, a download of the blob produced has been
\* triggered exactly once, under the name '<name>_modified' with the
\* extension of the format, and the download button is enabled again.
C20_ExportDownloadsOnce ==
    (handler.pc = "returned" /\ handler.outcome = "encoded") =>
        /\ Cardinality(downloadsOf(handler.blob)) = 1
        /\ \A i \in downloadsOf(handler.blob) :
              downloads[i].filename = modifiedName(controls.originalFilename, handler.kind)
        /\ ~downloadDropdownBtn.disabled

\* when a handler has returned, whatever the outcome, the button is enabled
\* and labelled 'Download'
ButtonEnabledAfterwards ==
    handler.pc = "returned" =>
        downloadDropdownBtn = [disabled |-> FALSE, textContent |-> DownloadLabel]

\* no export triggers a download
NothingIsDownloaded == downloads = <<>>

-----------------------------------------------------------------------------
(* Claims: the artwork *)

\* the APIC frames written
apicOf(out) == IF out.id3v2 = <<>> THEN <<>> ELSE out.id3v2[1].APIC

\* C21: when artwork is embedded in the ID3v2 tag, its MIME type is image/png
\* if and only if the bytes of the artwork are PNG, and image/jpeg otherwise,
\* whatever MIME type was declared for it.
C21_MimeFollowsTheBytes ==
    (tagOut.returned /\ apicOf(tagOut) # <<>>) =>
        /\ apicOf(tagOut)[1].format \in {"image/png", "image/jpeg"}
        /\ apicOf(tagOut)[1].format = "image/png" <=> tagArgs.albumArt.format = "png"

\* the MIME type written is image/png exactly when the declared type, in
\* lower case, contains 'png'
MimeFollowsTheDeclaration ==
    (tagOut.returned /\ apicOf(tagOut) # <<>>) =>
        (apicOf(tagOut)[1].format = "image/png" <=>
            \E i \in 1..Len(tagArgs.albumArt.mime) :
                /\ i + 2 <= Len(tagArgs.albumArt.mime)
                /\ tagArgs.albumArt.mime[i] \in {"p", "P"}
                /\ tagArgs.albumArt.mime[i + 1] \in {"n", "N"}
                /\ tagArgs.albumArt.mime[i + 2] \in {"g", "G"})

-----------------------------------------------------------------------------
(* Claims: the comb reverb of the live chain *)

\* the feedback path createDelayReverb builds
feedbackPath ==
    { <<"delay.bus", "delay.dampen">>,
      <<"delay.dampen", "delay.feedback">>,
      <<"delay.feedback", "delay.send">> }

\* C22: in the live chain, after construction and after any setReverbType
\* calls, the comb reverb keeps its feedback path: the bus feeds the 4 kHz
\* damping low-pass, that feeds the 0.22 feedback gain, and that feeds the
\* input of the reverb again.
C22_LiveCombKeepsFeedback ==
    disposeCalls = 0 => feedbackPath \subseteq conn

\* what the live chain keeps of that path: the bus no longer feeds the
\* damping low-pass
LiveCombLostFeedback ==
    disposeCalls = 0 =>
        feedbackPath \cap conn =
            { <<"delay.dampen", "delay.feedback">>, <<"delay.feedback", "delay.send">> }

-----------------------------------------------------------------------------
(* Claims: progress of the render *)

\* (k / n) * 100 rounded half up, in integers
roundedPercent(k, n) == (200 * k + n) \div (2 * n)

\* the reports made so far are those of the chunks rendered so far
ReportsFollowChunks ==
    /\ Len(progress) = Len(renderedChunks)
    /\ Len(progress) <= Len(rl.chunkStarts)
    /\ \A k \in 1..Len(progress) :
          /\ progress[k] = roundedPercent(k, Len(rl.chunkStarts))
          /\ renderedChunks[k].outputStart = rl.chunkStarts[k]
          /\ k > 1 => progress[k - 1] <= progress[k]
    /\ rpc \in {"loop", "rendering"} => Len(progress) = ri - 1
    /\ rpc = "yield" => Len(progress) = ri
    /\ rpc = "done" =>
          /\ Len(progress) = Len(rl.chunkStarts)
          /\ progress[Len(progress)] = 100

\* a report is followed by the yield, and nothing but the resumption of the
\* yield leads to the next chunk
YieldAfterEachReport ==
    /\ progress' # progress =>
          /\ progress' = Append(progress, progress'[Len(progress')])
          /\ rpc' = "yield"
    /\ rpc = "yield" =>
          /\ rpc' = "loop"
          /\ chunk' = chunk /\ renderedChunks' = renderedChunks /\ progress' = progress
    /\ (rpc' = "rendering" /\ rpc # "rendering") => rpc = "loop"

\* C23: renderOffline reports progress once per chunk, in chunk order, with
\* the value (chunkIndex + 1) / chunkCount * 100 rounded; the values never
\* decrease and the last one is 100; after each report the renderer yields
\* and does not start the next chunk before the yield has resumed.
C23_OneReportPerChunkThenYield ==
    []ReportsFollowChunks /\ [][YieldAfterEachReport]_vars

\* three chunks rendered and reported
C23_Witness ==
    /\ rpc = "done"
    /\ progress = <<33, 67, 100>>

\* suspended at the yield after the second of five reports
C23_WitnessYield ==
    /\ rpc = "yield"
    /\ Len(rl.chunkStarts) = 5
    /\ progress = <<20, 40>>

-----------------------------------------------------------------------------
(* Claims: the frames given to the MP3 encoder *)

\* the k-th call of encodeBuffer is given the samples (k-1)*1152 .. k*1152 of
\* the left channel and the same range of the right channel, which is the
\* left channel again for a mono source
FramesInOrder ==
    /\ mp3.calls = mp3.chunkCount
    /\ mp3.calls > 0 =>
          LET call == mp3.lastCall[1]
          IN  /\ call.left.channel = 1
              /\ call.right.channel = (IF encBuffer.channels = 1 THEN 1 ELSE 2)
              /\ call.left.from = (mp3.calls - 1) * 1152
              /\ call.left.to = Min(mp3.calls * 1152, encBuffer.length)
              /\ call.right.from = call.left.from
              /\ call.right.to = call.left.to
              /\ call.left.from < call.left.to
              /\ mp3.fed = call.left.to

\* one flush, after every sample has been fed; the bytes returned are those
\* the encoder gave out
FlushOnceAtTheEnd ==
    /\ mp3.flushes <= 1
    /\ mp3.flushes = 1 =>
          /\ mp3.fed = encBuffer.length
          /\ mp3.calls = (encBuffer.length + 1151) \div 1152
    /\ mp3.bytes = FrameBytes * mp3.chunks
    /\ mpc = "done" =>
          /\ mp3.flushes = 1
          /\ mp3.chunks <= mp3.calls + 1
          /\ mp3.out = << [byteLength |-> mp3.bytes] >>

\* one yield after each 500th frame and no other
YieldsEvery500 ==
    /\ Len(mp3.progress) = mp3.chunkCount \div 500
    /\ mpc = "yield" =>
          /\ mp3.chunkCount > 0
          /\ mp3.chunkCount % 500 = 0
          /\ mp3.flushes = 0

\* a frame starts where the frame before it ended, none follows the flush,
\* the 500th frame is followed by the yield, and the flush is the last call
FrameSteps ==
    /\ mp3'.calls # mp3.calls =>
          /\ mp3'.calls = mp3.calls + 1
          /\ mpc = "loop"
          /\ mp3.flushes = 0
          /\ mp3'.lastCall[1].left.from = mp3.fed
          /\ mp3'.chunks - mp3.chunks \in {0, 1}
          /\ (mpc' = "yield") <=> (mp3'.calls % 500 = 0)
    /\ mp3'.flushes # mp3.flushes =>
          /\ mpc = "loop"
          /\ mp3.fed = encBuffer.length
          /\ mp3'.calls = mp3.calls
          /\ mpc' \in {"done", "failed"}
    /\ mpc = "yield" => (mpc' = "loop" /\ mp3'.calls = mp3.calls /\ mp3'.bytes = mp3.bytes)

C24_WitnessYield ==
    /\ mpc = "yield"
    /\ mp3.chunkCount = 500
    /\ mp3.totalChunks = 501

-----------------------------------------------------------------------------
(* Claims: the octave correction *)

\* the correction as it is specified: doubled in [40, 80), halved and rounded
\* in (200, 400], unchanged otherwise, then clamped to [60, 200]
octaveCorrected(b) ==
    LET c == CASE b \in 40..79   -> 2 * b
               [] b \in 201..400 -> (b + 1) \div 2
               [] OTHER          -> b
    IN  IF c < 60 THEN 60 ELSE IF c > 200 THEN 200 ELSE c

\* the tempo of the centre of a bin: 60000 / periodMs rounded, periodMs in
\* 310, 330, ... 990
binBpm(bin) == CHOOSE n \in 0..400 :
    /\ 2 * n * (310 + 20 * bin) <= 120000 + (310 + 20 * bin)
    /\ 2 * (n + 1) * (310 + 20 * bin) > 120000 + (310 + 20 * bin)

\* C25: the number detectBPM returns is the tempo b of the modal bin after the
\* octave correction: 2b if b is in [40, 80), round(b / 2) if b is in
\* (200, 400], b otherwise, clamped to [60, 200].
C25_OctaveCorrection ==
    /\ (bpc = "done" /\ ~bpmOut.isNull) =>
          bpmOut.value = octaveCorrected(binBpm(bl.bestBin))
    /\ bpc = "hist" =>
          \A b \in 0..450 : correctedBpm(b) = octaveCorrected(b)

\* a modal bin of 760 to 780 ms: 78 BPM, returned as 156
C25_Witness ==
    /\ bpc = "done"
    /\ ~bpmOut.isNull
    /\ bl.hist[bl.bestBin] > 0
    /\ bl.bestBin = 23
    /\ bpmOut.value = 156

\* a modal bin of 320 to 340 ms: 182 BPM, returned as it is
C25_WitnessKept ==
    /\ bpc = "done"
    /\ ~bpmOut.isNull
    /\ bl.hist[bl.bestBin] > 0
    /\ bl.bestBin = 1
    /\ bpmOut.value = 182

-----------------------------------------------------------------------------
(* Claims: the modal bin *)

\* C26: when detectBPM returns a number, the histogram bin it was derived
\* from holds at least one of the deltas between peaks; when none of the kept
\* deltas lies within 300 to 1000 ms, the result is null.
C26_ModalBinIsNotEmpty ==
    (bpc = "done" /\ ~bpmOut.isNull) => bl.hist[bl.bestBin] > 0

\* what holds instead: a number is returned once two deltas are kept, and an
\* empty histogram gives the tempo of bin 0
EmptyHistogramGives194 ==
    (bpc = "done" /\ ~bpmOut.isNull) =>
        /\ Cardinality(bl.intervals) >= 2
        /\ bl.hist[bl.bestBin] = 0 => (bl.bestBin = 0 /\ bpmOut.value = 194)
        /\ \A b \in 0..(numBins - 1) : bl.hist[b] <= bl.hist[bl.bestBin]

-----------------------------------------------------------------------------
(* Claims: the position across a change of speed *)

\* a call of setSpeed with a new value while a source is playing
SetSpeedWhilePlaying ==
    /\ graphKind = "buffer"
    /\ playing /\ source.node
    /\ state'.speed # state.speed
    /\ state'.speed > 0

SamePosition(a, b) == RatLe(a, b) /\ RatLe(b, a)

\* getCurrentTime() once the step is done
getCurrentTimeAfter ==
    IF ~playing' THEN pauseOffset'
    ELSE RatMin(RatMul(RatSub(Rat(currentTime', 1), startTime'), rateOf(state'.speed)),
                getDuration)

\* C27: setSpeed(v) with v > 0 while playing does not move the playback
\* position: getCurrentTime() is the same after the call as before it, for
\* every previous speed and elapsed time, and lies within [0, duration].
C27_SetSpeedKeepsPosition ==
    [][SetSpeedWhilePlaying =>
          /\ SamePosition(getCurrentTimeAfter, getCurrentTime)
          /\ RatLe(Zero, getCurrentTimeAfter) /\ RatLe(getCurrentTimeAfter, getDuration)]_vars

\* what holds instead: the position after the call is the elapsed time
\* multiplied by the new speed, as if the new speed had been in use since the
\* source was started; it lies within [0, duration]
SetSpeedRescalesPosition ==
    [][SetSpeedWhilePlaying =>
          /\ SamePosition(getCurrentTimeAfter,
                 RatMin(RatMul(RatSub(Rat(currentTime, 1), startTime), rateOf(state'.speed)),
                        getDuration))
          /\ RatLe(Zero, getCurrentTimeAfter) /\ RatLe(getCurrentTimeAfter, getDuration)]_vars

-----------------------------------------------------------------------------
(* Claims: play() awaiting the context *)

\* a source node that has been started and has not run off the buffer
sourceRunning ==
    IF graphKind = "buffer" THEN source.node /\ source.started /\ ~source.finished
    ELSE ~audio.paused

\* C28: once stop(), pause() or dispose() has returned, isPlaying() is false
\* and no source node is started until play() is called again, whatever the
\* interleaving with an earlier play() that still awaits the resumption of
\* the audio context; at most one source node is connected to the chain.
C28_HaltedUntilPlayIsCalled ==
    /\ halted => (~isPlaying /\ ~sourceRunning)
    /\ Cardinality({e \in conn : e[1] = "source"}) <= 1

\* what holds instead: the chain stays halted when no play() was pending at
\* the time of the call
HaltedUnlessPlayPending ==
    /\ (halted /\ playCalls = 0) => (~isPlaying /\ ~sourceRunning)
    /\ (halted /\ pendingPlays = <<>> /\ graphKind = "buffer" /\ playing) => source.node
    /\ Cardinality({e \in conn : e[1] = "source"}) <= 1

\* a step that starts playing after a halt is the continuation of a play()
\* that was pending
OnlyPendingPlayRestarts ==
    [][(halted /\ ~isPlaying /\ isPlaying') =>
          (pendingPlays # <<>> /\ pendingPlays' = Tail(pendingPlays))]_vars

-----------------------------------------------------------------------------
(* Claims: the end of the playback *)

\* the registered callback is called on a step that is the 'ended' event of
\* the current source, run off the end of the buffer while the chain is
\* playing; the step leaves the chain stopped at position 0 and neither
\* replaces nor disconnects the source
CalledAtTheNaturalEnd ==
    (graphKind = "buffer" /\ endedCalls' # endedCalls) =>
        /\ endedCalls' = endedCalls + 1
        /\ endedCallback
        /\ playing
        /\ source.node /\ source.started /\ source.onended /\ ~source.finished
        /\ RatLe(getDuration, source.position)
        /\ source' = [source EXCEPT !.finished = TRUE]
        /\ conn' = conn
        /\ halted' = halted
        /\ pendingPlays' = pendingPlays
        /\ ~playing'
        /\ pauseOffset' = Zero

\* pause(), stop(), seek(), dispose() and the continuation of play() leave
\* the count of the calls alone, also when the source has already run off the
\* buffer and its 'ended' event is still to come
NotCalledByTheOthers ==
    (graphKind = "buffer" /\ ~( /\ source.node
                                /\ source' = [source EXCEPT !.finished = TRUE]
                                /\ conn' = conn
                                /\ pendingPlays' = pendingPlays
                                /\ halted' = halted
                                /\ disposeCalls' = disposeCalls )) =>
        endedCalls' = endedCalls

\* no more calls than playback runs started
OncePerRun ==
    graphKind = "buffer" => endedCalls <= playCalls - Len(pendingPlays)

C29_WitnessPaused ==
    /\ graphKind = "buffer"
    /\ endedCallback
    /\ endedCalls = 0
    /\ playCalls = 1 /\ pendingPlays = <<>>
    /\ source = NoSource
    /\ halted
    /\ currentTime = MaxTime
    /\ startTime = Zero
    /\ pauseOffset = getDuration

-----------------------------------------------------------------------------
(* Claims: one live chain *)

\* C30: at most one live chain is active: after any sequence of file loads,
\* a second load started while the first is still decoding included, every
\* graph that was created, other than the one held in currentGraph, has been
\* disposed; none of them is connected to the output or playing.
C30_OnlyCurrentGraphIsLive ==
    \A k \in 1..Len(graphs) :
        k # currentGraph =>
            /\ graphs[k].disposed
            /\ ~graphs[k].toOutput
            /\ ~graphs[k].playing

\* what holds: the graph held in currentGraph is not disposed, a disposed
\* graph is neither connected to the output nor playing, and a graph is left
\* undisposed only when another graph was created after it by another load
CurrentGraphIsLive ==
    /\ currentGraph # 0 =>
          (~graphs[currentGraph].disposed /\ graphs[currentGraph].toOutput)
    /\ \A k \in 1..Len(graphs) :
          /\ graphs[k].disposed => (~graphs[k].toOutput /\ ~graphs[k].playing)
          /\ (k # currentGraph /\ ~graphs[k].disposed) =>
                /\ k < Len(graphs)
                /\ \E j \in (k + 1)..Len(graphs) : graphs[j].file # graphs[k].file

====
